---------------------------- MODULE Spec2Model ----------------------------
(***************************************************************************)
(* Geometric classification pipeline of forge_cad (analyzer package).      *)
(*                                                                         *)
(* Lengths are integers in units of 0.0001 mm, so that a value can be      *)
(* finer than the 3-decimal rounding the code applies:                     *)
(*   0.001 mm = 10 units, 0.1 mm = 1000 units, 0.5 mm = 5000 units.        *)
(* A mesh is a record                                                      *)
(*   name, file_type, auto_role, z_min, z_max, verts, volume, bounding_box             *)
(* where verts stands for tm.vertices[:, 2] as a sequence of               *)
(* [z |-> value, n |-> number of vertices at that value], ascending in z,  *)
(* and bounding_box is <<min corner, max corner>> or <<>> for None.        *)
(* Volumes are integers in units of 0.00001 mm^3.  A string that the code  *)
(* searches or tokenises is a sequence of one-character strings.           *)
(* A Python dict is a sequence of entries in insertion order.              *)
(***************************************************************************)
EXTENDS Integers, Sequences, FiniteSets, TLC

VARIABLES
    meshes,          \* the loader's list of LoadedMesh records
    z_profiles,      \* ZProfileExtractor.extract()
    variant_result,  \* VariantDiffer._compute(): the VariantPair list, unrounded
    variant_diffs,   \* VariantDiffer.compute(): the serialised dict
    components,      \* TopologyClassifier.classify()
    arg,             \* argument of a helper called on its own
    ret,             \* what that helper returned
    pc               \* position in the stage sequence

vars == <<meshes, z_profiles, variant_result, variant_diffs, components, arg, ret, pc>>

\* ------------------------------------------------------------ bounds
\* Longest mesh list handed to the topology pipeline.
TopoMaxMeshes == 2

\* Largest Z of the topology pipeline's meshes, in steps of 0.5 mm.
TopoMaxZ == 3

\* Longest mesh list handed to the Z-profile extractor alone.
ZMaxMeshes == 2

\* Most distinct vertex Z-values of one mesh of the Z-profile extractor's input.
ZMaxLevels == 3

\* Most words of a mesh name handed to _classify_variant_name alone.
NameMaxWords == 3

\* Longest mesh list handed to the variant differ.
VarMaxMeshes == 3

\* Most cross-section paths the slicer hands to one detection.
FeatMaxPaths == 2

\* Most meshes handed to SymmetryDetector.detect.
SymMaxMeshes == 1

\* Longest mesh list handed to the boundary detector.
BoundMaxMeshes == 3

\* Longest feature list handed to PatternDetector.detect.
PatMaxFeatures == 4
ErrMaxPaths == 1
ArchMaxMeshes == 2
TwiceMaxPaths == 1
PipeMaxPaths == 3
AsmMaxMeshes == 3
EdgeMaxEdges == 3
MirrorMaxPairs == 5
PairMaxMeshes == 3

\* ------------------------------------------------------------ generic helpers
Abs(x) == IF x < 0 THEN -x ELSE x

Max2(a, b) == IF a >= b THEN a ELSE b

Range(s) == {s[i] : i \in 1..Len(s)}

SetMin(S) == CHOOSE x \in S : \A y \in S : x <= y

SetMax(S) == CHOOSE x \in S : \A y \in S : x >= y

\* sorted(set) of integers, ascending
RECURSIVE SortedSeq(_)
SortedSeq(S) ==
    IF S = {} THEN <<>>
    ELSE LET m == SetMin(S) IN <<m>> \o SortedSeq(S \ {m})

\* Python round(x, 3) of a length x given in units: the nearest multiple of
\* 10 units, an exact tie going to the even multiple.
Round3(v) ==
    LET q == v \div 10
        r == v % 10
    IN  IF r < 5 THEN 10 * q
        ELSE IF r > 5 THEN 10 * (q + 1)
        ELSE IF q % 2 = 0 THEN 10 * q ELSE 10 * (q + 1)

\* ------------------------------------------------------------ dict helpers
\* Position of key k in dict d (a sequence of records with field name), 0 if absent.
DictIndex(d, k) ==
    IF \E i \in 1..Len(d) : d[i].name = k
    THEN CHOOSE i \in 1..Len(d) : d[i].name = k /\ \A j \in 1..(i - 1) : d[j].name # k
    ELSE 0

\* d[k] = v of a Python dict: a new key is appended, an existing key keeps its
\* place and takes the new value.
DictPut(d, v) ==
    LET i == DictIndex(d, v.name)
    IN  IF i = 0 THEN Append(d, v) ELSE [d EXCEPT ![i] = v]

RECURSIVE DictFrom(_, _)
DictFrom(d, s) ==
    IF s = <<>> THEN d ELSE DictFrom(DictPut(d, Head(s)), Tail(s))

\* [m for m in meshes if m.file_type != "dxf"]
NotDxf(ms) == SelectSeq(ms, LAMBDA m : m.file_type # "dxf")

\* {m.name: m for m in meshes if m.file_type != "dxf"}
MeshDict(ms) == DictFrom(<<>>, NotDxf(ms))

\* ------------------------------------------------------------ program constants
\* Z_CLUSTER_TOLERANCE = 0.1 mm
Z_CLUSTER_TOLERANCE == 1000

\* Z_SUBSET_TOLERANCE = 0.5 mm
Z_SUBSET_TOLERANCE == 5000

\* n_bins of _find_significant_levels
N_BINS == 200

\* ------------------------------------------------------------ Stage 1: z_profile.py
RECURSIVE VertCount(_)
VertCount(verts) ==
    IF verts = <<>> THEN 0 ELSE Head(verts).n + VertCount(Tail(verts))

VertZs(verts) == {verts[i].z : i \in 1..Len(verts)}

\* np.histogram(z_vals, bins=n_bins, range=(z_min, z_max)): the bin of a value;
\* the last bin is closed on the right.
BinOf(z, z_min, z_max) ==
    IF z >= z_max THEN N_BINS - 1
    ELSE ((z - z_min) * N_BINS) \div (z_max - z_min)

RECURSIVE HistCount(_, _, _, _)
HistCount(verts, i, z_min, z_max) ==
    IF verts = <<>> THEN 0
    ELSE (IF BinOf(Head(verts).z, z_min, z_max) = i THEN Head(verts).n ELSE 0)
         + HistCount(Tail(verts), i, z_min, z_max)

\* (edges[i] + edges[i+1]) / 2, as a numerator over 2 * N_BINS
BinCentre(i, z_min, z_max) ==
    2 * N_BINS * z_min + (2 * i + 1) * (z_max - z_min)

\* round(level, 3) of a bin centre given as a numerator over 2 * N_BINS
RoundCentre(N) ==
    LET D == 2 * N_BINS
        q == N \div (10 * D)
        r == N % (10 * D)
    IN  IF r < 5 * D THEN 10 * q
        ELSE IF r > 5 * D THEN 10 * (q + 1)
        ELSE IF q % 2 = 0 THEN 10 * q ELSE 10 * (q + 1)

\* First clustering loop of _find_significant_levels: the candidate is an
\* unrounded bin centre, the kept levels are rounded.
RECURSIVE ClusterCentres(_, _)
ClusterCentres(cands, clustered) ==
    IF cands = <<>> THEN clustered
    ELSE LET N == Head(cands)
             keep == \/ clustered = <<>>
                     \/ Abs(N - 2 * N_BINS * clustered[Len(clustered)])
                            > 2 * N_BINS * Z_CLUSTER_TOLERANCE
         IN  ClusterCentres(Tail(cands),
                 IF keep THEN Append(clustered, RoundCentre(N)) ELSE clustered)

\* Second loop of _find_significant_levels: levels already rounded.
RECURSIVE ClusterRaw(_, _)
ClusterRaw(raw, result) ==
    IF raw = <<>> THEN result
    ELSE LET level == Head(raw)
             keep == \/ result = <<>>
                     \/ Abs(level - result[Len(result)]) > Z_CLUSTER_TOLERANCE
         IN  ClusterRaw(Tail(raw), IF keep THEN Append(result, level) ELSE result)

find_significant_levels(verts, z_min, z_max) ==
    IF z_max <= z_min THEN <<Round3(z_min)>>
    ELSE LET threshold == Max2(1, VertCount(verts) \div 100)
             bins == {i \in {BinOf(z, z_min, z_max) : z \in VertZs(verts)} :
                          HistCount(verts, i, z_min, z_max) >= threshold}
             order == SortedSeq(bins)
             candidate_levels ==
                 [k \in 1..Len(order) |-> BinCentre(order[k], z_min, z_max)]
             clustered == ClusterCentres(candidate_levels, <<>>)
             raw == SortedSeq({Round3(z_min), Round3(z_max)} \cup Range(clustered))
         IN  ClusterRaw(raw, <<>>)

\* The fallback ZProfile of _profile_one (no vertices attribute, or the
\* vertex processing raised).
FallbackProfile(mesh) ==
    [name |-> mesh.name, z_min |-> mesh.z_min, z_max |-> mesh.z_max,
     z_thickness |-> mesh.z_max - mesh.z_min,
     significant_levels |-> <<>>, is_flat_slab |-> FALSE]

\* _profile_one with a flat-slab flag that looks at the number of levels only
profile_one_by_levels(mesh) ==
    IF mesh.verts = <<>> THEN FallbackProfile(mesh)
    ELSE LET z_min == SetMin(VertZs(mesh.verts))
             z_max == SetMax(VertZs(mesh.verts))
             significant == find_significant_levels(mesh.verts, z_min, z_max)
         IN  [name |-> mesh.name, z_min |-> z_min, z_max |-> z_max,
              z_thickness |-> z_max - z_min,
              significant_levels |-> significant,
              is_flat_slab |-> (Len(significant) <= 2)]

profile_one(mesh) ==
    IF mesh.verts = <<>> THEN FallbackProfile(mesh)
    ELSE LET z_min == SetMin(VertZs(mesh.verts))
             z_max == SetMax(VertZs(mesh.verts))
             z_thickness == z_max - z_min
             significant == find_significant_levels(mesh.verts, z_min, z_max)
         IN  [name |-> mesh.name, z_min |-> z_min, z_max |-> z_max,
              z_thickness |-> z_thickness,
              significant_levels |-> significant,
              is_flat_slab |-> (Len(significant) <= 2 /\ z_thickness > 0)]

\* profiles[mesh.name] = self._profile_one(mesh), over self.meshes in order
RECURSIVE BuildProfiles(_, _)
BuildProfiles(ms, profiles) ==
    IF ms = <<>> THEN profiles
    ELSE BuildProfiles(Tail(ms), DictPut(profiles, profile_one(Head(ms))))

\* The merge loop comparing each level with merged[0] instead of merged[-1]
RECURSIVE MergeLevels_first(_, _)
MergeLevels_first(sorted_levels, merged) ==
    IF sorted_levels = <<>> THEN merged
    ELSE LET level == Head(sorted_levels)
             keep == \/ merged = <<>>
                     \/ Abs(level - merged[1]) > Z_CLUSTER_TOLERANCE
         IN  MergeLevels_first(Tail(sorted_levels),
                 IF keep THEN Append(merged, Round3(level)) ELSE merged)

RECURSIVE MergeLevels(_, _)
MergeLevels(sorted_levels, merged) ==
    IF sorted_levels = <<>> THEN merged
    ELSE LET level == Head(sorted_levels)
             keep == \/ merged = <<>>
                     \/ Abs(level - merged[Len(merged)]) > Z_CLUSTER_TOLERANCE
         IN  MergeLevels(Tail(sorted_levels),
                 IF keep THEN Append(merged, Round3(level)) ELSE merged)

cluster_levels(profiles) ==
    LET all_raw == UNION {Range(profiles[i].significant_levels)
                              \cup {profiles[i].z_min, profiles[i].z_max} :
                          i \in 1..Len(profiles)}
    IN  IF all_raw = {} THEN <<0>> ELSE MergeLevels(SortedSeq(all_raw), <<>>)

\* max(profiles, key=z_thickness): the first key, in dict order, of largest
\* thickness.
BodyIndex(profiles) ==
    CHOOSE i \in 1..Len(profiles) :
        /\ \A j \in 1..Len(profiles) : profiles[j].z_thickness <= profiles[i].z_thickness
        /\ \A j \in 1..(i - 1) : profiles[j].z_thickness < profiles[i].z_thickness

find_body(profiles) ==
    IF profiles = <<>>
    THEN [body_candidate |-> "None", body_z_min |-> 0, body_z_max |-> 0]
    ELSE LET body == profiles[BodyIndex(profiles)]
         IN  [body_candidate |-> body.name,
              body_z_min |-> body.z_min, body_z_max |-> body.z_max]

\* ZProfileExtractor(meshes).extract()
extract(ms) ==
    LET profiles == BuildProfiles(NotDxf(ms), <<>>)
        body == find_body(profiles)
    IN  [profiles |-> profiles,
         all_levels |-> cluster_levels(profiles),
         body_z_min |-> body.body_z_min,
         body_z_max |-> body.body_z_max,
         body_candidate |-> body.body_candidate]

NoProfiles ==
    [profiles |-> <<>>, all_levels |-> <<>>, body_z_min |-> 0, body_z_max |-> 0,
     body_candidate |-> "None"]

\* VariantDiffResult() before the differ has run
NoVariantResult == [pairs |-> <<>>, feature_volumes |-> <<>>]

NoVariantDiffs == [pairs |-> <<>>, feature_volumes |-> <<>>]


\* ------------------------------------------------------------ Stage 2: variant_diff.py
\* str.lower() on the letters that occur in the names below
Lower(c) ==
    CASE c = "B" -> "b" [] c = "E" -> "e" [] c = "F" -> "f" [] c = "H" -> "h"
      [] c = "N" -> "n" [] c = "O" -> "o" [] c = "R" -> "r" [] c = "W" -> "w"
      [] OTHER -> c

LowerStr(str) == [i \in 1..Len(str) |-> Lower(str[i])]

\* keyword in lower: substring search
Contains(str, sub) ==
    \E i \in 1..(Len(str) - Len(sub) + 1) : SubSeq(str, i, i + Len(sub) - 1) = sub

\* \w of the regular expression, over the characters that occur in the names
IsWordChar(c) == c \notin {" ", "(", ")", "-", "."}

\* set(re.findall(r"\w+", str)): the maximal runs of word characters
Tokens(str) ==
    {SubSeq(str, ij[1], ij[2]) :
        ij \in {x \in (1..Len(str)) \X (1..Len(str)) :
                  /\ x[1] <= x[2]
                  /\ \A k \in x[1]..x[2] : IsWordChar(str[k])
                  /\ (x[1] = 1 \/ ~IsWordChar(str[x[1] - 1]))
                  /\ (x[2] = Len(str) \/ ~IsWordChar(str[x[2] + 1]))}}

\* _VARIANT_KEYWORDS with "without" moved up next to "removed"
VARIANT_KEYWORDS_without_second ==
    << [keyword |-> <<"r","e","m","o","v","e","d">>, relationship |-> "subtracted"],
       [keyword |-> <<"w","i","t","h","o","u","t">>, relationship |-> "subtracted"],
       [keyword |-> <<"n","o"," ","h","o","l","e","s">>, relationship |-> "holes_removed"],
       [keyword |-> <<"e","x","c","e","p","t">>, relationship |-> "feature_present"],
       [keyword |-> <<"o","n","l","y">>, relationship |-> "feature_isolated"] >>

\* _VARIANT_KEYWORDS, in the order of the source
VARIANT_KEYWORDS ==
    << [keyword |-> <<"r","e","m","o","v","e","d">>, relationship |-> "subtracted"],
       [keyword |-> <<"n","o"," ","h","o","l","e","s">>, relationship |-> "holes_removed"],
       [keyword |-> <<"w","i","t","h","o","u","t">>, relationship |-> "subtracted"],
       [keyword |-> <<"e","x","c","e","p","t">>, relationship |-> "feature_present"],
       [keyword |-> <<"o","n","l","y">>, relationship |-> "feature_isolated"] >>

\* The first row of a keyword table whose keyword occurs in the lower-cased
\* name, 0 if none does.
FirstRow(table, name) ==
    LET lower == LowerStr(name)
        hits == {k \in 1..Len(table) : Contains(lower, table[k].keyword)}
    IN  IF hits = {} THEN 0 ELSE SetMin(hits)

\* VariantDiffer._classify_variant_name; "None" for None
classify_variant_name(name) ==
    LET k == FirstRow(VARIANT_KEYWORDS, name)
    IN  IF k = 0 THEN "None" ELSE VARIANT_KEYWORDS[k].relationship

\* The scan of _find_base over the candidates; best is [score, name], the
\* empty name standing for None.
RECURSIVE FindBaseScan(_, _, _)
FindBaseScan(variant_name, candidates, best) ==
    IF candidates = <<>> THEN best.name
    ELSE LET candidate == Head(candidates)
             overlap == Cardinality(Tokens(LowerStr(variant_name))
                                      \cap Tokens(LowerStr(candidate)))
             skip == \/ candidate = variant_name
                     \/ classify_variant_name(candidate) # "None"
         IN  FindBaseScan(variant_name, Tail(candidates),
                 IF ~skip /\ overlap > best.score
                 THEN [score |-> overlap, name |-> candidate]
                 ELSE best)

\* _find_base without the skip of candidates that are variants themselves
RECURSIVE FindBaseScan_keep_variants(_, _, _)
FindBaseScan_keep_variants(variant_name, candidates, best) ==
    IF candidates = <<>> THEN best.name
    ELSE LET candidate == Head(candidates)
             overlap == Cardinality(Tokens(LowerStr(variant_name))
                                      \cap Tokens(LowerStr(candidate)))
         IN  FindBaseScan_keep_variants(variant_name, Tail(candidates),
                 IF candidate # variant_name /\ overlap > best.score
                 THEN [score |-> overlap, name |-> candidate]
                 ELSE best)

find_base_keep_variants(variant_name, all_names) ==
    FindBaseScan_keep_variants(variant_name, all_names, [score |-> 0, name |-> <<>>])

\* _find_base with a best score that starts below zero, so that a candidate
\* without a common token can be the base
find_base_any_overlap(variant_name, all_names) ==
    FindBaseScan(variant_name, all_names, [score |-> -1, name |-> <<>>])

\* VariantDiffer._find_base
find_base(variant_name, all_names) ==
    FindBaseScan(variant_name, all_names, [score |-> 0, name |-> <<>>])

\* VariantDiffer._detect_pairs: the loop over the names, in dict order
RECURSIVE DetectPairsScan(_, _, _, _)
DetectPairsScan(todo, names, used, pairs) ==
    IF todo = <<>> THEN pairs
    ELSE LET name == Head(todo)
             relationship == classify_variant_name(name)
             base == find_base(name, names)
             emit == /\ name \notin used
                     /\ relationship # "None"
                     /\ base # <<>>
                     /\ base # name
         IN  DetectPairsScan(Tail(todo), names,
                 IF emit THEN used \cup {name} ELSE used,
                 IF emit
                 THEN Append(pairs, [base_name |-> base, variant_name |-> name,
                                     relationship |-> relationship,
                                     volume_diff |-> 0,
                                     volume_diff_pct |-> [num |-> 0, den |-> 1],
                                     bbox_diff |-> <<>>])
                 ELSE pairs)

detect_pairs(d) ==
    LET names == [i \in 1..Len(d) |-> d[i].name]
    IN  DetectPairsScan(names, names, {}, <<>>)

\* base_extents - var_extents, per axis; <<>> when either box is None
BBoxDiff(base_mesh, variant_mesh) ==
    IF base_mesh.bounding_box = <<>> \/ variant_mesh.bounding_box = <<>> THEN <<>>
    ELSE [k \in 1..3 |->
            (base_mesh.bounding_box[2][k] - base_mesh.bounding_box[1][k])
            - (variant_mesh.bounding_box[2][k] - variant_mesh.bounding_box[1][k])]

\* The percentage with the sign of volume_diff, for any non-zero base_vol
VolumeDiffPct_signed(base_vol, volume_diff) ==
    IF base_vol > 0 THEN [num |-> 100 * volume_diff, den |-> base_vol]
    ELSE IF base_vol < 0 THEN [num |-> 0 - 100 * volume_diff, den |-> 0 - base_vol]
    ELSE [num |-> 0, den |-> 1]

\* The percentage 100.0 * abs(volume_diff) / base_vol as an exact fraction;
\* it keeps the dataclass default 0.0 unless base_vol > 0.
VolumeDiffPct(base_vol, volume_diff) ==
    IF base_vol > 0
    THEN [num |-> 100 * Abs(volume_diff), den |-> base_vol]
    ELSE [num |-> 0, den |-> 1]

\* The body of the loop of _compute_volume_diffs for one pair
WithVolumeDiff(d, pair) ==
    LET base_mesh == d[DictIndex(d, pair.base_name)]
        variant_mesh == d[DictIndex(d, pair.variant_name)]
        volume_diff == base_mesh.volume - variant_mesh.volume
    IN  [pair EXCEPT !.volume_diff = volume_diff,
                     !.volume_diff_pct = VolumeDiffPct(base_mesh.volume, volume_diff),
                     !.bbox_diff = BBoxDiff(base_mesh, variant_mesh)]

\* VariantDiffer._compute: the pairs with their differences filled in, and
\* feature_volumes (keyed by "<base>_vs_<variant>")
variant_compute(ms) ==
    LET d == MeshDict(ms)
        found == detect_pairs(d)
        pairs == [i \in 1..Len(found) |-> WithVolumeDiff(d, found[i])]
        kept == SelectSeq(pairs,
                    LAMBDA p : p.relationship \in {"subtracted", "holes_removed"})
    IN  [pairs |-> pairs,
         feature_volumes |->
             [i \in 1..Len(kept) |->
                 [base |-> kept[i].base_name, variant |-> kept[i].variant_name,
                  volume |-> Abs(kept[i].volume_diff)]]]

\* round(x, 4) of a volume in units of 0.00001 mm^3
Round4(v) == Round3(v)

\* round(pct, 2) of the fraction num / den, in units of 0.01 percent
Round2Pct(f) ==
    LET n == 100 * f.num
        q == n \div f.den
        r == n % f.den
    IN  IF 2 * r < f.den THEN q
        ELSE IF 2 * r > f.den THEN q + 1
        ELSE IF q % 2 = 0 THEN q ELSE q + 1

\* VariantDiffer.compute: the plain dict, values rounded
variant_serialise(result) ==
    [pairs |->
        [i \in 1..Len(result.pairs) |->
            [base |-> result.pairs[i].base_name,
             variant |-> result.pairs[i].variant_name,
             relationship |-> result.pairs[i].relationship,
             volume_diff |-> Round4(result.pairs[i].volume_diff),
             volume_diff_pct |-> Round2Pct(result.pairs[i].volume_diff_pct),
             bbox_diff |-> result.pairs[i].bbox_diff]],
     feature_volumes |->
        [i \in 1..Len(result.feature_volumes) |->
            [result.feature_volumes[i] EXCEPT
                !.volume = Round4(result.feature_volumes[i].volume)]]]


\* ------------------------------------------------------------ Stage 3: topology.py
\* _classify_role with the filename hint tested before the Z-range-subset rule
classify_role_hint_first(z_min, z_max, is_body_candidate, body_z_min, body_z_max, auto_role) ==
    LET z_thickness == z_max - z_min
        body_thickness == body_z_max - body_z_min
    IN  IF is_body_candidate \/ auto_role = "full_assembly"
        THEN [role |-> "base_solid", note |-> "tallest Z-range -> base solid"]
        ELSE IF auto_role = "variant_removed"
        THEN [role |-> "variant", note |-> "filename suggests removed/variant"]
        ELSE IF auto_role = "isolated_component"
        THEN [role |-> "additive", note |-> "isolated component -> additive"]
        ELSE IF /\ body_thickness > 0
                /\ z_min >= body_z_min - Z_SUBSET_TOLERANCE
                /\ z_max <= body_z_max - Z_SUBSET_TOLERANCE
                /\ z_thickness < body_thickness - Z_SUBSET_TOLERANCE
        THEN [role |-> "pocket_fill", note |-> "Z-range within body -> pocket_fill"]
        ELSE [role |-> "unknown", note |-> "could not auto-classify; needs manual review"]

\* _classify_role with the tolerance added to the body's top instead of
\* subtracted from it
classify_role_tol_sign(z_min, z_max, is_body_candidate, body_z_min, body_z_max, auto_role) ==
    LET z_thickness == z_max - z_min
        body_thickness == body_z_max - body_z_min
    IN  IF is_body_candidate \/ auto_role = "full_assembly"
        THEN [role |-> "base_solid", note |-> "tallest Z-range -> base solid"]
        ELSE IF auto_role = "variant_removed"
        THEN [role |-> "variant", note |-> "filename suggests removed/variant"]
        ELSE IF /\ body_thickness > 0
                /\ z_min >= body_z_min - Z_SUBSET_TOLERANCE
                /\ z_max <= body_z_max + Z_SUBSET_TOLERANCE
                /\ z_thickness < body_thickness + Z_SUBSET_TOLERANCE
        THEN [role |-> "pocket_fill", note |-> "Z-range within body -> pocket_fill"]
        ELSE IF auto_role = "isolated_component"
        THEN [role |-> "additive", note |-> "isolated component -> additive"]
        ELSE [role |-> "unknown", note |-> "could not auto-classify; needs manual review"]

\* _classify_role without the body-candidate rule: only the full_assembly hint
\* makes a base solid
classify_role_hint_only(z_min, z_max, is_body_candidate, body_z_min, body_z_max, auto_role) ==
    LET z_thickness == z_max - z_min
        body_thickness == body_z_max - body_z_min
    IN  IF auto_role = "full_assembly"
        THEN [role |-> "base_solid", note |-> "tallest Z-range -> base solid"]
        ELSE IF auto_role = "variant_removed"
        THEN [role |-> "variant", note |-> "filename suggests removed/variant"]
        ELSE IF /\ body_thickness > 0
                /\ z_min >= body_z_min - Z_SUBSET_TOLERANCE
                /\ z_max <= body_z_max - Z_SUBSET_TOLERANCE
                /\ z_thickness < body_thickness - Z_SUBSET_TOLERANCE
        THEN [role |-> "pocket_fill", note |-> "Z-range within body -> pocket_fill"]
        ELSE IF auto_role = "isolated_component"
        THEN [role |-> "additive", note |-> "isolated component -> additive"]
        ELSE [role |-> "unknown", note |-> "could not auto-classify; needs manual review"]

\* TopologyClassifier._classify_role: the role and the note it returns
classify_role(z_min, z_max, is_body_candidate, body_z_min, body_z_max, auto_role) ==
    LET z_thickness == z_max - z_min
        body_thickness == body_z_max - body_z_min
    IN  IF is_body_candidate \/ auto_role = "full_assembly"
        THEN [role |-> "base_solid", note |-> "tallest Z-range -> base solid"]
        ELSE IF auto_role = "variant_removed"
        THEN [role |-> "variant", note |-> "filename suggests removed/variant"]
        ELSE IF /\ body_thickness > 0
                /\ z_min >= body_z_min - Z_SUBSET_TOLERANCE
                /\ z_max <= body_z_max - Z_SUBSET_TOLERANCE
                /\ z_thickness < body_thickness - Z_SUBSET_TOLERANCE
        THEN [role |-> "pocket_fill", note |-> "Z-range within body -> pocket_fill"]
        ELSE IF auto_role = "isolated_component"
        THEN [role |-> "additive", note |-> "isolated component -> additive"]
        ELSE [role |-> "unknown", note |-> "could not auto-classify; needs manual review"]

\* The order table of TopologyClassifier._sort_key; order.get(role, 99)
RolePriority(role) ==
    CASE role = "base_solid" -> 0
      [] role = "pocket_fill" -> 1
      [] role = "additive" -> 2
      [] role = "subtractive" -> 3
      [] role = "variant" -> 4
      [] role = "unknown" -> 5
      [] OTHER -> 99

\* _sort_key without the Z-max component
SortKeyLE_role_only(a, b) == RolePriority(a.role) <= RolePriority(b.role)

\* _sort_key(a) <= _sort_key(b), tuples compared lexicographically
SortKeyLE(a, b) ==
    \/ RolePriority(a.role) < RolePriority(b.role)
    \/ /\ RolePriority(a.role) = RolePriority(b.role)
       /\ a.z_max <= b.z_max

\* list.sort(key=...) is stable: an element goes after every element already
\* placed whose key is not greater.
InsertByKey(sorted, c) ==
    LET later == {i \in 1..Len(sorted) : ~SortKeyLE(sorted[i], c)}
        at == IF later = {} THEN Len(sorted) + 1 ELSE SetMin(later)
    IN  SubSeq(sorted, 1, at - 1) \o <<c>> \o SubSeq(sorted, at, Len(sorted))

RECURSIVE SortComponents(_, _)
SortComponents(cs, sorted) ==
    IF cs = <<>> THEN sorted
    ELSE SortComponents(Tail(cs), InsertByKey(sorted, Head(cs)))

\* self.z_profiles.get("profiles", {}).get(name, {}) with the mesh's own
\* z_min / z_max as defaults
ProfileZ(zp, mesh) ==
    LET i == DictIndex(zp.profiles, mesh.name)
    IN  IF i = 0 THEN [z_min |-> mesh.z_min, z_max |-> mesh.z_max]
        ELSE [z_min |-> zp.profiles[i].z_min, z_max |-> zp.profiles[i].z_max]

\* The loop of classify(): one component per entry of self.meshes
ClassifyEach(ms, zp) ==
    LET d == MeshDict(ms)
    IN  [i \in 1..Len(d) |->
            LET z == ProfileZ(zp, d[i])
                r == classify_role(z.z_min, z.z_max, d[i].name = zp.body_candidate,
                                   zp.body_z_min, zp.body_z_max, d[i].auto_role)
            IN  [name |-> d[i].name, role |-> r.role, z_min |-> z.z_min,
                 z_max |-> z.z_max, csg_order |-> i - 1, notes |-> r.note]]

\* TopologyClassifier(meshes, z_profiles, variant_diffs).classify()
classify(ms, zp) ==
    LET sorted == SortComponents(ClassifyEach(ms, zp), <<>>)
    IN  [i \in 1..Len(sorted) |-> [sorted[i] EXCEPT !.csg_order = i - 1]]

\* ------------------------------------------------------------ inputs: loader.py
\* The role hints _detect_role can return.
AutoRoles ==
    {"variant_removed", "variant_no_holes", "isolated_component",
     "full_assembly", "variant_feature", "unknown"}

\* z vertices of trimesh.creation.box([1, 1, 0.001]), the stub mesh of a DXF
\* or SVG file: four vertices at -0.0005 mm and four at +0.0005 mm.
StubVerts == <<[z |-> -5, n |-> 4], [z |-> 5, n |-> 4]>>

\* _load_dxf / _load_svg: z_min, z_max and volume keep the dataclass defaults.
StubMesh(name, file_type, auto_role) ==
    [name |-> name, file_type |-> file_type, auto_role |-> auto_role,
     z_min |-> 0, z_max |-> 0, verts |-> StubVerts, volume |-> 0,
     bounding_box |-> <<>>]

\* _load_mesh of a slab whose vertices lie on its bottom and top planes.
SlabMesh(name, auto_role, z_min, z_max, volume) ==
    [name |-> name, file_type |-> "stl", auto_role |-> auto_role,
     z_min |-> z_min, z_max |-> z_max,
     verts |-> IF z_min = z_max THEN <<[z |-> z_min, n |-> 8]>>
               ELSE <<[z |-> z_min, n |-> 4], [z |-> z_max, n |-> 4]>>,
     volume |-> volume,
     bounding_box |-> <<<<0, 0, z_min>>, <<50000, 50000, z_max>>>>]

\* ------------------------------------------------------------ topology pipeline
TopoNames == {"a", "b"}

TopoRoles == {"full_assembly", "variant_removed", "isolated_component", "unknown"}

TopoZ == {k * Z_SUBSET_TOLERANCE : k \in 0..TopoMaxZ}

\* Z-ranges of the slabs, and the planar mesh at z = 0.
TopoRanges == {zr \in TopoZ \X TopoZ : zr[1] < zr[2]} \cup {<<0, 0>>}

TopoMeshes ==
    {SlabMesh(nm, r, zr[1], zr[2], 0) :
        nm \in TopoNames, r \in TopoRoles, zr \in TopoRanges}
    \cup {StubMesh(nm, ft, "unknown") : nm \in TopoNames, ft \in {"dxf", "svg"}}

InitTopo ==
    /\ \E k \in 1..TopoMaxMeshes : meshes \in [1..k -> TopoMeshes]
    /\ z_profiles = NoProfiles
    /\ variant_result = NoVariantResult
    /\ variant_diffs = NoVariantDiffs
    /\ components = <<>>
    /\ arg = <<>>
    /\ ret = <<>>
    /\ pc = "loaded"

\* Stage 1 of Pipeline.run_init
ExtractZProfiles ==
    /\ pc = "loaded"
    /\ z_profiles' = extract(meshes)
    /\ pc' = "profiled"
    /\ UNCHANGED <<meshes, variant_result, variant_diffs, components, arg, ret>>

\* Stage 3 of Pipeline.run_init
ClassifyTopology ==
    /\ pc = "profiled"
    /\ components' = classify(meshes, z_profiles)
    /\ pc' = "classified"
    /\ UNCHANGED <<meshes, z_profiles, variant_result, variant_diffs, arg, ret>>

NextTopo == ExtractZProfiles \/ ClassifyTopology

SpecTopo == InitTopo /\ [][NextTopo]_vars


\* ------------------------------------------------------------ claims C1..C3
\* The mesh record behind a classified component.
MeshOf(c) == LET d == MeshDict(meshes) IN d[DictIndex(d, c.name)]

\* The claim's Z-range-subset rule, as the claim words it.
InBodyRange(c) ==
    /\ c.z_min >= z_profiles.body_z_min - Z_SUBSET_TOLERANCE
    /\ c.z_max <= z_profiles.body_z_max - Z_SUBSET_TOLERANCE
    /\ (c.z_max - c.z_min)
         < (z_profiles.body_z_max - z_profiles.body_z_min) - Z_SUBSET_TOLERANCE

FirstMatchingRole(c) ==
    IF c.name = z_profiles.body_candidate \/ MeshOf(c).auto_role = "full_assembly"
    THEN "base_solid"
    ELSE IF MeshOf(c).auto_role = "variant_removed" THEN "variant"
    ELSE IF InBodyRange(c) THEN "pocket_fill"
    ELSE IF MeshOf(c).auto_role = "isolated_component" THEN "additive"
    ELSE "unknown"

\* C1: every classified component carries the role of the first matching rule
\* in the order body/full_assembly, variant_removed, Z-range subset,
\* isolated_component, unknown (with the manual-review note); one component is
\* classified per non-DXF mesh name.
C1_FirstMatchingRule ==
    pc = "classified" =>
        /\ {components[i].name : i \in 1..Len(components)}
             = {meshes[i].name : i \in {j \in 1..Len(meshes) : meshes[j].file_type # "dxf"}}
        /\ \A i \in 1..Len(components) :
             /\ components[i].role = FirstMatchingRole(components[i])
             /\ components[i].role = "unknown" =>
                  components[i].notes = "could not auto-classify; needs manual review"

\* C1 witness: a non-body component hinted isolated_component lies inside the
\* body's Z-range and has been classified pocket_fill.
C1_Witness ==
    /\ pc = "classified"
    /\ \E i \in 1..Len(components) :
         /\ components[i].name # z_profiles.body_candidate
         /\ MeshOf(components[i]).auto_role = "isolated_component"
         /\ InBodyRange(components[i])
         /\ components[i].role = "pocket_fill"

SameRangeAsBody(c) ==
    /\ c.z_min = z_profiles.body_z_min
    /\ c.z_max = z_profiles.body_z_max

\* C2 as stated: every component whose Z-range equals the body's Z-range is
\* base_solid, whatever its name or hint.
C2_EqualRangeIsBaseSolid ==
    pc = "classified" =>
        \A i \in 1..Len(components) :
            SameRangeAsBody(components[i]) => components[i].role = "base_solid"

\* C2 amended: a component whose Z-range equals the body's is base_solid when
\* it is the body candidate or hinted full_assembly; otherwise it is variant
\* (hint variant_removed), additive (hint isolated_component) or unknown, and
\* never pocket_fill.
C2_EqualRangeByHint ==
    pc = "classified" =>
        \A i \in 1..Len(components) :
            LET c == components[i]
                hint == MeshOf(c).auto_role
            IN  SameRangeAsBody(c) =>
                  c.role = IF c.name = z_profiles.body_candidate \/ hint = "full_assembly"
                           THEN "base_solid"
                           ELSE IF hint = "variant_removed" THEN "variant"
                           ELSE IF hint = "isolated_component" THEN "additive"
                           ELSE "unknown"

\* C2 witness: a component that is not the body candidate has the body's exact
\* Z-range, over a body of positive thickness, and was classified additive.
C2_Witness ==
    /\ pc = "classified"
    /\ z_profiles.body_z_max > z_profiles.body_z_min
    /\ \E i \in 1..Len(components) :
         /\ components[i].name # z_profiles.body_candidate
         /\ SameRangeAsBody(components[i])
         /\ components[i].role = "additive"

\* C3: csg_order is 0..n-1 in list order, and the list is ordered by role
\* priority, then by Z-max ascending.
C3_CsgOrder ==
    pc = "classified" =>
        /\ \A i \in 1..Len(components) : components[i].csg_order = i - 1
        /\ \A i, j \in 1..Len(components) :
             i < j =>
               /\ RolePriority(components[i].role) <= RolePriority(components[j].role)
               /\ RolePriority(components[i].role) = RolePriority(components[j].role)
                    => components[i].z_max <= components[j].z_max

\* C3 witness: two components of equal role were classified in the opposite
\* order of their Z-max and the sort has exchanged them.
C3_Witness ==
    /\ pc = "classified"
    /\ Len(components) = 2
    /\ components[1].role = components[2].role
    /\ components[1].z_max < components[2].z_max
    /\ MeshDict(meshes)[1].name = components[2].name


\* ------------------------------------------------------------ Z-profile extractor alone
\* _load_mesh: z_min and z_max are the mesh's bounds.
SolidMesh(name, auto_role, verts, volume) ==
    [name |-> name, file_type |-> "stl", auto_role |-> auto_role,
     z_min |-> SetMin(VertZs(verts)), z_max |-> SetMax(VertZs(verts)),
     verts |-> verts, volume |-> volume,
     bounding_box |-> <<<<0, 0, SetMin(VertZs(verts))>>,
                        <<50000, 50000, SetMax(VertZs(verts))>>>>]

\* A loaded object without vertex data; z_min and z_max are precomputed.
NoVertexMesh(name, auto_role, z_min, z_max) ==
    [name |-> name, file_type |-> "stl", auto_role |-> auto_role,
     z_min |-> z_min, z_max |-> z_max, verts |-> <<>>, volume |-> 0,
     bounding_box |-> <<>>]

\* Vertex Z-values (units of 0.0001 mm): 0 and 0.06 mm lie within the cluster
\* tolerance of each other, 0.06 and 0.1604 mm lie 0.1004 mm apart and round
\* to exactly 0.1 mm apart, 3 mm is far from all of them.
ZPool == {0, 600, 1604, 30000}

\* One vertex at every Z-value of S, and 300 of them at the value dense.
MkVerts(S, dense) ==
    LET order == SortedSeq(S)
    IN  [k \in 1..Len(order) |->
            [z |-> order[k], n |-> IF order[k] = dense THEN 300 ELSE 1]]

ZVerts ==
    {MkVerts(S, d) :
        S \in {T \in SUBSET ZPool : T # {} /\ Cardinality(T) <= ZMaxLevels},
        d \in ZPool \cup {-1}}

ZNames == {"a", "b"}

ZMeshes ==
    {SolidMesh(nm, "unknown", v, 0) : nm \in ZNames, v \in ZVerts}
    \cup {StubMesh(nm, ft, "unknown") : nm \in ZNames, ft \in {"dxf", "svg"}}
    \cup {NoVertexMesh(nm, "unknown", 0, hi) : nm \in ZNames, hi \in {0, 30000}}

InitZ ==
    /\ \E k \in 1..ZMaxMeshes : meshes \in [1..k -> ZMeshes]
    /\ z_profiles = NoProfiles
    /\ variant_result = NoVariantResult
    /\ variant_diffs = NoVariantDiffs
    /\ components = <<>>
    /\ arg = <<>>
    /\ ret = <<>>
    /\ pc = "loaded"

NextZ == ExtractZProfiles

SpecZ == InitZ /\ [][NextZ]_vars

\* ------------------------------------------------------------ claims C4, C5
\* Adjacent entries ascend by at least the cluster tolerance.
GapsAtLeastTolerance(levels) ==
    \A k \in 1..(Len(levels) - 1) : levels[k + 1] - levels[k] >= Z_CLUSTER_TOLERANCE

\* C4: every mesh's significant-level list and the aggregate all_levels list
\* are strictly increasing with adjacent gaps of at least 0.1 mm.
C4_LevelsSeparated ==
    pc = "profiled" =>
        /\ GapsAtLeastTolerance(z_profiles.all_levels)
        /\ \A i \in 1..Len(z_profiles.profiles) :
             GapsAtLeastTolerance(z_profiles.profiles[i].significant_levels)

\* The raw levels _cluster_levels collects from the profiles.
RawLevels ==
    UNION {Range(z_profiles.profiles[i].significant_levels)
               \cup {z_profiles.profiles[i].z_min, z_profiles.profiles[i].z_max} :
           i \in 1..Len(z_profiles.profiles)}

\* C4 witness: two meshes were profiled; the aggregate list merged away some
\* raw level and kept 0.1604 mm, rounded to 0.16 mm, exactly 0.1 mm above its
\* predecessor.
C4_Witness ==
    /\ pc = "profiled"
    /\ Len(z_profiles.profiles) = 2
    /\ 1604 \in RawLevels
    /\ Cardinality(RawLevels) > Len(z_profiles.all_levels)
    /\ \E k \in 1..(Len(z_profiles.all_levels) - 1) :
         /\ z_profiles.all_levels[k + 1] = 1600
         /\ z_profiles.all_levels[k + 1] - z_profiles.all_levels[k] = Z_CLUSTER_TOLERANCE

\* The meshes that are not 2-D profile stubs (the loader's DXF and SVG stubs).
Non2D == SelectSeq(meshes, LAMBDA m : m.file_type \notin {"dxf", "svg"})

\* C5 as stated: the body candidate is the first, in input order, of the
\* non-2-D meshes of largest z_max - z_min, and body_z_min / body_z_max are
\* that mesh's.
C5_BodyIsThickestMesh ==
    (pc = "profiled" /\ Non2D # <<>>) =>
        \E i \in 1..Len(Non2D) :
            /\ \A j \in 1..Len(Non2D) :
                 Non2D[j].z_max - Non2D[j].z_min <= Non2D[i].z_max - Non2D[i].z_min
            /\ \A j \in 1..(i - 1) :
                 Non2D[j].z_max - Non2D[j].z_min < Non2D[i].z_max - Non2D[i].z_min
            /\ z_profiles.body_candidate = Non2D[i].name
            /\ z_profiles.body_z_min = Non2D[i].z_min
            /\ z_profiles.body_z_max = Non2D[i].z_max


\* ------------------------------------------------------------ mesh names
W_Body == <<"B","o","d","y">>
W_Full == <<"F","u","l","l">>
W_Removed == <<"R","e","m","o","v","e","d">>
W_No == <<"N","o">>
W_Holes == <<"H","o","l","e","s">>
W_Without == <<"W","i","t","h","o","u","t">>
W_Except == <<"E","x","c","e","p","t">>
W_Only == <<"O","n","l","y">>

\* The words of a file stem, joined by single spaces.
RECURSIVE Join(_)
Join(words) ==
    IF Len(words) = 1 THEN words[1]
    ELSE words[1] \o <<" ">> \o Join(Tail(words))

\* FileLoader._detect_role on a stem made of the words above (the patterns
\* for layers, plates and full assemblies match none of them); "." of a
\* pattern matches any one character.
DetectRole(name) ==
    LET lower == LowerStr(name)
    IN  IF \/ Contains(lower, <<"r","e","m","o","v","e","d">>)
           \/ Contains(lower, <<"w","i","t","h","o","u","t">>)
        THEN "variant_removed"
        ELSE IF \E i \in 1..(Len(lower) - 7) :
                   /\ SubSeq(lower, i, i + 1) = <<"n","o">>
                   /\ SubSeq(lower, i + 3, i + 7) = <<"h","o","l","e","s">>
        THEN "variant_no_holes"
        ELSE IF \/ Contains(lower, <<"e","x","c","e","p","t">>)
                \/ Contains(lower, <<"o","n","l","y">>)
        THEN "variant_feature"
        ELSE "unknown"

\* ------------------------------------------------------------ _classify_variant_name alone
NameVocab ==
    {W_Body, W_Full, W_Removed, W_No, W_Holes, W_Without, W_Except, W_Only}

NameInputs ==
    {Join(ws) : ws \in UNION {[1..k -> NameVocab] : k \in 1..NameMaxWords}}

InitName ==
    /\ meshes = <<>>
    /\ z_profiles = NoProfiles
    /\ variant_result = NoVariantResult
    /\ variant_diffs = NoVariantDiffs
    /\ components = <<>>
    /\ arg \in NameInputs
    /\ ret = <<>>
    /\ pc = "call"

\* relationship = self._classify_variant_name(name)
ClassifyVariantName ==
    /\ pc = "call"
    /\ ret' = classify_variant_name(arg)
    /\ pc' = "returned"
    /\ UNCHANGED <<meshes, z_profiles, variant_result, variant_diffs, components, arg>>

NextName == ClassifyVariantName

SpecName == InitName /\ [][NextName]_vars

\* ------------------------------------------------------------ variant differ
VarNames ==
    {Join(<<W_Body>>), Join(<<W_Full, W_Body>>), Join(<<W_Body, W_Removed>>),
     Join(<<W_Full, W_Body, W_No, W_Holes>>), Join(<<W_Only>>)}

\* Volumes in units of 0.00001 mm^3; a mesh with inverted faces has a
\* negative volume.
VarVolumes == {-70, 0, 70, 124}

VarMeshes ==
    {SlabMesh(nm, DetectRole(nm), 0, 80000, v) : nm \in VarNames, v \in VarVolumes}
    \cup {StubMesh(nm, "dxf", DetectRole(nm)) :
             nm \in {Join(<<W_Body>>), Join(<<W_Body, W_Removed>>)}}

InitVar ==
    /\ \E k \in 1..VarMaxMeshes : meshes \in [1..k -> VarMeshes]
    /\ z_profiles = NoProfiles
    /\ variant_result = NoVariantResult
    /\ variant_diffs = NoVariantDiffs
    /\ components = <<>>
    /\ arg = <<>>
    /\ ret = <<>>
    /\ pc = "loaded"

\* Stage 2 of Pipeline.run_init
ComputeVariantDiffs ==
    /\ pc = "loaded"
    /\ variant_result' = variant_compute(meshes)
    /\ variant_diffs' = variant_serialise(variant_compute(meshes))
    /\ pc' = "diffed"
    /\ UNCHANGED <<meshes, z_profiles, components, arg, ret>>

NextVar == ComputeVariantDiffs

SpecVar == InitVar /\ [][NextVar]_vars

\* ------------------------------------------------------------ claims C8..C10
K_removed == <<"r","e","m","o","v","e","d">>
K_without == <<"w","i","t","h","o","u","t">>
K_no_holes == <<"n","o"," ","h","o","l","e","s">>
K_except == <<"e","x","c","e","p","t">>
K_only == <<"o","n","l","y">>

HasKeyword(name, k) == Contains(LowerStr(name), k)

HasAnyKeyword(name) ==
    \E k \in {K_removed, K_without, K_no_holes, K_except, K_only} : HasKeyword(name, k)

\* C8 as stated: the relationship is that of the first matching row of
\* ["removed" or "without" -> subtracted; "no holes" -> holes_removed;
\*  "except" -> feature_present; "only" -> feature_isolated].
C8_FirstRowMergedTable ==
    pc = "returned" =>
        ret = IF HasKeyword(arg, K_removed) \/ HasKeyword(arg, K_without) THEN "subtracted"
              ELSE IF HasKeyword(arg, K_no_holes) THEN "holes_removed"
              ELSE IF HasKeyword(arg, K_except) THEN "feature_present"
              ELSE IF HasKeyword(arg, K_only) THEN "feature_isolated"
              ELSE "None"

\* C8 amended: the relationship is that of the first matching row of
\* ["removed" -> subtracted; "no holes" -> holes_removed; "without" ->
\*  subtracted; "except" -> feature_present; "only" -> feature_isolated]; a name
\* with "without" and "no holes" but not "removed" is holes_removed.
C8_FirstRowSourceTable ==
    pc = "returned" =>
        ret = IF HasKeyword(arg, K_removed) THEN "subtracted"
              ELSE IF HasKeyword(arg, K_no_holes) THEN "holes_removed"
              ELSE IF HasKeyword(arg, K_without) THEN "subtracted"
              ELSE IF HasKeyword(arg, K_except) THEN "feature_present"
              ELSE IF HasKeyword(arg, K_only) THEN "feature_isolated"
              ELSE "None"

\* C8 witness: a name holding "without" and "no holes" but not "removed" was
\* classified holes_removed.
C8_Witness ==
    /\ pc = "returned"
    /\ HasKeyword(arg, K_without)
    /\ HasKeyword(arg, K_no_holes)
    /\ ~HasKeyword(arg, K_removed)
    /\ ret = "holes_removed"

MeshNames == {meshes[i].name : i \in {j \in 1..Len(meshes) : meshes[j].file_type # "dxf"}}

\* C9: in every emitted pair the variant name holds a variant keyword, the base
\* name holds none and differs from the variant name; both are names of the
\* mesh set; a mesh set without any keyword in its names yields no pair.
C9_NoFalsePositive ==
    pc = "diffed" =>
        /\ \A i \in 1..Len(variant_diffs.pairs) :
             LET p == variant_diffs.pairs[i]
             IN  /\ HasAnyKeyword(p.variant)
                 /\ ~HasAnyKeyword(p.base)
                 /\ p.base # p.variant
                 /\ {p.base, p.variant} \subseteq MeshNames
        /\ (\A nm \in MeshNames : ~HasAnyKeyword(nm)) => variant_diffs.pairs = <<>>

\* C9 witness: a mesh set with two keyword names and a clean name has been
\* differenced and a pair was emitted.
C9_Witness ==
    /\ pc = "diffed"
    /\ Cardinality({nm \in MeshNames : HasAnyKeyword(nm)}) >= 2
    /\ variant_diffs.pairs # <<>>

\* The mesh the differ holds under a name.
VarMesh(name) == LET d == MeshDict(meshes) IN d[DictIndex(d, name)]

\* C10 as stated: volume_diff = base.volume - variant.volume, and
\* volume_diff_pct = 100 * volume_diff / base.volume when base.volume is
\* non-zero, 0 when it is 0.
C10_SignedPercentage ==
    pc = "diffed" =>
        \A i \in 1..Len(variant_result.pairs) :
            LET p == variant_result.pairs[i]
                b == VarMesh(p.base_name).volume
                v == VarMesh(p.variant_name).volume
            IN  /\ p.volume_diff = b - v
                /\ b # 0 => p.volume_diff_pct.num * b = 100 * p.volume_diff * p.volume_diff_pct.den
                /\ b = 0 => p.volume_diff_pct.num = 0

\* C10 amended: volume_diff = base.volume - variant.volume (signed), and
\* volume_diff_pct = 100 * |volume_diff| / base.volume when base.volume > 0,
\* 0 otherwise; the serialised pair carries both rounded (4 and 2 decimals).
C10_AbsolutePercentage ==
    pc = "diffed" =>
        /\ Len(variant_diffs.pairs) = Len(variant_result.pairs)
        /\ \A i \in 1..Len(variant_result.pairs) :
            LET p == variant_result.pairs[i]
                b == VarMesh(p.base_name).volume
                v == VarMesh(p.variant_name).volume
            IN  /\ p.volume_diff = b - v
                /\ b > 0 => p.volume_diff_pct.num * b = 100 * Abs(b - v) * p.volume_diff_pct.den
                /\ b <= 0 => p.volume_diff_pct.num = 0
                /\ Abs(variant_diffs.pairs[i].volume_diff - (b - v)) <= 5
                /\ b > 0 => Abs(variant_diffs.pairs[i].volume_diff_pct * b
                                  - 10000 * Abs(b - v)) * 2 <= b

\* C10 witness: a pair was emitted whose variant is larger than its base, of
\* positive volume: the difference is negative and the percentage positive.
C10_Witness ==
    /\ pc = "diffed"
    /\ \E i \in 1..Len(variant_result.pairs) :
         /\ VarMesh(variant_result.pairs[i].base_name).volume > 0
         /\ variant_result.pairs[i].volume_diff < 0
         /\ variant_result.pairs[i].volume_diff_pct.num > 0


\* ------------------------------------------------------------ Stage 4: feature_detect.py
\* Cross-section paths are sequences of <<x, y>> in whole millimetres whose
\* edges are parallel to the axes; areas are in mm^2, perimeters in mm, and
\* every parameter of a feature is in units of 0.0001 mm.

\* CIRCLE_THRESHOLD = 0.80, as the fraction 4/5
CIRCLE_THRESHOLD == [num |-> 4, den |-> 5]

\* MIN_FEATURE_AREA = 4.0 mm^2
MIN_FEATURE_AREA == 4

\* math.pi, as the fraction 355/113
PI == [num |-> 355, den |-> 113]

\* round(n / d, 3) of a length of n / d mm, in units: the nearest multiple
\* of 10 units, an exact tie going to the even multiple.
Round3Frac(n, d) ==
    LET m == 1000 * n
        q == m \div d
        r == m % d
    IN  IF 2 * r < d THEN 10 * q
        ELSE IF 2 * r > d THEN 10 * (q + 1)
        ELSE IF q % 2 = 0 THEN 10 * q ELSE 10 * (q + 1)

RECURSIVE SumSeq(_)
SumSeq(s) == IF s = <<>> THEN 0 ELSE Head(s) + SumSeq(Tail(s))

\* The largest d in lo..hi with d * d <= x
RECURSIVE ISqrtIn(_, _, _)
ISqrtIn(lo, hi, x) ==
    IF lo = hi THEN lo
    ELSE LET mid == (lo + hi + 1) \div 2
         IN  IF mid * mid <= x THEN ISqrtIn(mid, hi, x) ELSE ISqrtIn(lo, mid - 1, x)

\* FeatureDetector._polygon_area, doubled: the shoelace sum closes the path
\* with the index (i + 1) % n.
polygon_area2(path) ==
    LET n == Len(path)
    IN  Abs(SumSeq([i \in 1..n |->
                path[i][1] * path[(i % n) + 1][2] - path[(i % n) + 1][1] * path[i][2]]))

\* The perimeter of _compute_circularity: np.diff gives the n - 1 differences
\* of consecutive vertices, the edge from the last vertex back to the first is
\* not among them.  An axis-parallel edge has length |dx| + |dy|.
diff_perimeter(path) ==
    SumSeq([i \in 1..(Len(path) - 1) |->
                Abs(path[i + 1][1] - path[i][1]) + Abs(path[i + 1][2] - path[i][2])])

\* circularity >= CIRCLE_THRESHOLD, where circularity is 0.0 for a perimeter
\* <= 0 and min(1.0, 4 * pi * area / perimeter^2) otherwise
circularity_reaches_threshold(path) ==
    LET perimeter == diff_perimeter(path)
    IN  /\ perimeter > 0
        /\ 4 * PI.num * polygon_area2(path) * CIRCLE_THRESHOLD.den
              >= 2 * PI.den * perimeter * perimeter * CIRCLE_THRESHOLD.num

\* FeatureDetector._simplify_polygon.  On the paths used here every vertex is
\* a corner lying farther than the tolerance from the chord of its
\* neighbours, so the Douglas-Peucker simplification keeps all of them, and
\* the stride of the fallback is 1 for fewer than 40 vertices.
simplify_polygon(path, tolerance) == path

\* FeatureDetector._is_rectangular: for axis-parallel edges the cosine is 0
\* when the dot product is 0 and +-1 otherwise.
is_rectangular(path) ==
    LET simplified == simplify_polygon(path, 10000)
        v(i) == <<simplified[(i % 4) + 1][1] - simplified[i][1],
                  simplified[(i % 4) + 1][2] - simplified[i][2]>>
    IN  /\ Len(simplified) = 4
        /\ \A i \in 1..4 :
             LET v1 == v(i)
                 v2 == v((i % 4) + 1)
             IN  /\ v1 # <<0, 0>>
                 /\ v2 # <<0, 0>>
                 /\ v1[1] * v2[1] + v1[2] * v2[2] = 0

\* round(2.0 * math.sqrt(area / math.pi), 3) in units: the integer nearest to
\* sqrt(4000000 * area / pi), times 10 (2000000 / pi taken as 636620; the
\* product stays below 2^31 for areas up to 1686 mm^2).
Diameter(area2) ==
    LET x == area2 * 636620
        d == ISqrtIn(0, 46340, x)
    IN  IF d * d + d < x THEN 10 * (d + 1) ELSE 10 * d

\* f"{z:.1f}" of a height in units, as the number of tenths of a millimetre
Fmt1(z) ==
    LET q == z \div 1000
        r == z % 1000
    IN  IF r < 500 THEN q
        ELSE IF r > 500 THEN q + 1
        ELSE IF q % 2 = 0 THEN q ELSE q + 1

NoFeature == [feature_type |-> "None"]

\* FeatureDetector._classify_path
classify_path(path, z, source_name) ==
    LET n == Len(path)
        area2 == polygon_area2(path)
        xs == {path[i][1] : i \in 1..n}
        ys == {path[i][2] : i \in 1..n}
        detected_from == <<"cross_section_z", Fmt1(z), source_name>>
    IN  IF n < 3 THEN NoFeature
        ELSE IF area2 < 2 * MIN_FEATURE_AREA THEN NoFeature
        ELSE IF circularity_reaches_threshold(path)
        THEN [name |-> <<>>, feature_type |-> "circular_hole",
              detected_from |-> detected_from,
              params |-> [center_x |-> Round3Frac(SumSeq([i \in 1..n |-> path[i][1]]), n),
                          center_y |-> Round3Frac(SumSeq([i \in 1..n |-> path[i][2]]), n),
                          diameter |-> Diameter(area2),
                          z_level |-> Round3(z)]]
        ELSE IF is_rectangular(path)
        THEN [name |-> <<>>, feature_type |-> "rectangular_slot",
              detected_from |-> detected_from,
              params |-> [x_min |-> 10000 * SetMin(xs), x_max |-> 10000 * SetMax(xs),
                          y_min |-> 10000 * SetMin(ys), y_max |-> 10000 * SetMax(ys),
                          width |-> 10000 * (SetMax(xs) - SetMin(xs)),
                          height |-> 10000 * (SetMax(ys) - SetMin(ys)),
                          z_level |-> Round3(z)]]
        ELSE IF Len(simplify_polygon(path, 5000)) >= 3
        THEN [name |-> <<>>, feature_type |-> "polygon",
              detected_from |-> detected_from,
              params |-> [vertices |-> [i \in 1..n |-> <<10000 * path[i][1], 10000 * path[i][2]>>],
                          vertex_count |-> n,
                          z_level |-> Round3(z),
                          area |-> 5000 * area2]]
        ELSE NoFeature


\* ------------------------------------------------------------ _classify_path alone
\* Side lengths of the rectangles, mm
PathSides == {1, 2, 3, 20, 30}

PathCorners == {<<-10, 0>>, <<0, 5>>}

\* The four corners of the rectangle with lower-left corner c, width w and
\* height h, listed from corner number start, counter-clockwise or clockwise.
RectPath(c, w, h, start, ccw) ==
    LET corners == << <<c[1], c[2]>>, <<c[1] + w, c[2]>>,
                      <<c[1] + w, c[2] + h>>, <<c[1], c[2] + h>> >>
    IN  [i \in 1..4 |->
            corners[((start + (IF ccw THEN i - 1 ELSE 4 - (i - 1))) % 4) + 1]]

\* Rectangles with both sides >= 2 mm (see simplify_polygon), and rectangles
\* below MIN_FEATURE_AREA.
PathRects ==
    {RectPath(c, wh[1], wh[2], start, ccw) :
        c \in PathCorners,
        wh \in {p \in PathSides \X PathSides :
                   (p[1] >= 2 /\ p[2] >= 2) \/ p[1] * p[2] < MIN_FEATURE_AREA},
        start \in 0..3, ccw \in BOOLEAN}

InitPath ==
    /\ meshes = <<>>
    /\ z_profiles = NoProfiles
    /\ variant_result = NoVariantResult
    /\ variant_diffs = NoVariantDiffs
    /\ components = <<>>
    /\ arg \in [path : PathRects, z : {1000, 6000}, source_name : {"a"}]
    /\ ret = <<>>
    /\ pc = "call"

\* detected = self._classify_path(path, z_mid, mesh.name)
ClassifyPath ==
    /\ pc = "call"
    /\ ret' = classify_path(arg.path, arg.z, arg.source_name)
    /\ pc' = "returned"
    /\ UNCHANGED <<meshes, z_profiles, variant_result, variant_diffs, components, arg>>

NextPath == ClassifyPath

SpecPath == InitPath /\ [][NextPath]_vars

XExtent(path) == SetMax({path[i][1] : i \in 1..Len(path)}) - SetMin({path[i][1] : i \in 1..Len(path)})

YExtent(path) == SetMax({path[i][2] : i \in 1..Len(path)}) - SetMin({path[i][2] : i \in 1..Len(path)})

\* C7 as stated: a path of the four corners of an axis-aligned rectangle of
\* area >= 4 mm^2 is classified rectangular_slot, with width and height the
\* X and Y extents of the rectangle.
C7_RectangleIsSlot ==
    (pc = "returned" /\ XExtent(arg.path) * YExtent(arg.path) >= MIN_FEATURE_AREA) =>
        /\ ret.feature_type = "rectangular_slot"
        /\ ret.params.width = 10000 * XExtent(arg.path)
        /\ ret.params.height = 10000 * YExtent(arg.path)


\* ------------------------------------------------------------ FeatureDetector.detect
\* f.params.get(key, 0)
ParamGet(f, key) == IF key \in DOMAIN f.params THEN f.params[key] ELSE 0

\* face.get(key, 0.0)
FaceGet(face, key) == IF key \in DOMAIN face THEN face[key] ELSE 0

\* math.sqrt(dx * dx + dy * dy) < 1.0, for dx and dy in units
WithinOneMm(dx, dy) ==
    /\ Abs(dx) < 10000
    /\ Abs(dy) < 10000
    /\ dx * dx + dy * dy < 10000 * 10000

\* The comparison of f with one feature s of seen in _deduplicate
Duplicates(s, f) ==
    /\ s.feature_type = f.feature_type
    /\ CASE f.feature_type = "circular_hole" ->
                WithinOneMm(ParamGet(f, "center_x") - ParamGet(s, "center_x"),
                            ParamGet(f, "center_y") - ParamGet(s, "center_y"))
         [] f.feature_type = "rectangular_slot" ->
                /\ Abs(ParamGet(f, "x_min") - ParamGet(s, "x_min")) < 10000
                /\ Abs(ParamGet(f, "y_min") - ParamGet(s, "y_min")) < 10000
         [] f.feature_type \in {"fillet", "chamfer"} ->
                s.detected_from = f.detected_from
         [] OTHER -> FALSE

\* is_dup when f is compared with the feature retained last only
IsDupOfSeen_last_only(f, seen) ==
    seen # <<>> /\ Duplicates(seen[Len(seen)], f)

\* is_dup after the loop over seen
IsDupOfSeen(f, seen) == \E i \in 1..Len(seen) : Duplicates(seen[i], f)

RECURSIVE DedupScan(_, _)
DedupScan(features, seen) ==
    IF features = <<>> THEN seen
    ELSE DedupScan(Tail(features),
                   IF IsDupOfSeen(Head(features), seen) THEN seen
                   ELSE Append(seen, Head(features)))

\* FeatureDetector._deduplicate
deduplicate(features) == DedupScan(features, <<>>)

\* FeatureDetector._analyse_cross_section; paths is what the slicer returns
\* for the plane at z_mid.
analyse_cross_section(mesh, z, paths) ==
    LET above == z + 1000
        z_mid == IF above > mesh.z_max THEN Max2(mesh.z_min + 100, z - 1000) ELSE above
        detected == [i \in 1..Len(paths) |->
                        IF Len(paths[i]) < 4 THEN NoFeature
                        ELSE classify_path(paths[i], z_mid, mesh.name)]
    IN  SelectSeq(detected, LAMBDA f : f # NoFeature)

\* round(abs(vol_diff), 3) of a volume in units of 0.00001 mm^3
Round3Volume(v) ==
    LET a == Abs(v)
        q == a \div 100
        r == a % 100
    IN  IF r < 50 THEN 100 * q
        ELSE IF r > 50 THEN 100 * (q + 1)
        ELSE IF q % 2 = 0 THEN 100 * q ELSE 100 * (q + 1)

\* FeatureDetector._features_from_variant_diffs
features_from_variant_diffs(vd) ==
    LET kept == SelectSeq(vd.pairs,
                    LAMBDA p : /\ p.relationship \in {"subtracted", "holes_removed"}
                               /\ Abs(p.volume_diff) > 0)
    IN  [i \in 1..Len(kept) |->
            [name |-> <<>>,
             feature_type |-> IF kept[i].relationship = "holes_removed"
                              THEN "circular_hole" ELSE "polygon",
             detected_from |-> <<"variant_diff", kept[i].base, kept[i].variant>>,
             params |-> [volume_diff |-> Round3Volume(kept[i].volume_diff),
                         relationship |-> kept[i].relationship]]]

\* FeatureDetector._detect_fillets_chamfers; edges holds what the dihedral
\* angles of the mesh give: the number of edges below 10 degrees and between
\* 10 and 80 degrees, and the estimated radius and size.
detect_fillets_chamfers(mesh, edges) ==
    (IF edges.fillet_edges > 0
     THEN <<[name |-> <<>>, feature_type |-> "fillet",
             detected_from |-> <<"edge_dihedral", mesh.name>>,
             params |-> [radius |-> Round3(edges.radius),
                         edge_count |-> edges.fillet_edges]]>>
     ELSE <<>>)
    \o
    (IF edges.chamfer_edges > 0
     THEN <<[name |-> <<>>, feature_type |-> "chamfer",
             detected_from |-> <<"edge_dihedral", mesh.name>>,
             params |-> [size |-> Round3(edges.size),
                         edge_count |-> edges.chamfer_edges]]>>
     ELSE <<>>)

\* One face of _features_from_brep; area in mm^2
FeatureFromFace(face) ==
    IF /\ FaceGet(face, "face_type") = "cylindrical"
       /\ FaceGet(face, "radius") > 0
       /\ FaceGet(face, "area") >= MIN_FEATURE_AREA
    THEN [name |-> <<>>, feature_type |-> "circular_hole",
          detected_from |-> <<"brep_face">>,
          params |-> [diameter |-> Round3(FaceGet(face, "radius") * 2),
                      center_x |-> Round3(FaceGet(face, "center_x")),
                      center_y |-> Round3(FaceGet(face, "center_y")),
                      z_level |-> Round3(FaceGet(face, "z_min"))]]
    ELSE IF FaceGet(face, "face_type") = "toroidal" /\ FaceGet(face, "radius") > 0
    THEN [name |-> <<>>, feature_type |-> "fillet",
          detected_from |-> <<"brep_face">>,
          params |-> [radius |-> Round3(FaceGet(face, "radius")), edge_count |-> 1]]
    ELSE NoFeature

\* FeatureDetector._features_from_brep
features_from_brep(metadata) ==
    SelectSeq([i \in 1..Len(metadata) |-> FeatureFromFace(metadata[i])],
              LAMBDA f : f # NoFeature)

\* max(self.meshes.values(), key=lambda m: m.volume): the first of the largest
MaxVolumeMesh(d) ==
    d[CHOOSE i \in 1..Len(d) :
          /\ \A j \in 1..Len(d) : d[j].volume <= d[i].volume
          /\ \A j \in 1..(i - 1) : d[j].volume < d[i].volume]

\* body_mesh of detect; <<>> for None
BodyMesh(ms, zp) ==
    LET d == MeshDict(ms)
    IN  IF zp.body_candidate # "None" /\ DictIndex(d, zp.body_candidate) # 0
        THEN d[DictIndex(d, zp.body_candidate)]
        ELSE IF d # <<>> THEN MaxVolumeMesh(d)
        ELSE <<>>

RECURSIVE SectionFeatures(_, _, _, _)
SectionFeatures(mesh, levels, sections, i) ==
    IF i > Len(levels) THEN <<>>
    ELSE analyse_cross_section(mesh, levels[i],
                               IF i <= Len(sections) THEN sections[i] ELSE <<>>)
         \o SectionFeatures(mesh, levels, sections, i + 1)

\* features of detect just before _deduplicate; lib holds what trimesh and
\* the caller supply: the paths of each section, the edge classification and
\* brep_face_metadata.
detect_candidates(ms, zp, vd, lib) ==
    LET body_mesh == BodyMesh(ms, zp)
    IN  IF body_mesh = <<>> THEN <<>>
        ELSE SectionFeatures(body_mesh, zp.all_levels, lib.sections, 1)
             \o features_from_variant_diffs(vd)
             \o detect_fillets_chamfers(body_mesh, lib.edges)
             \o (IF lib.brep # <<>> THEN features_from_brep(lib.brep) ELSE <<>>)

\* Names made of the kind and the number of features of that kind in the list
NameFeatures_by_kind_count(features) ==
    [i \in 1..Len(features) |->
        IF features[i].name = <<>>
        THEN [features[i] EXCEPT !.name =
                 <<features[i].feature_type,
                   Cardinality({j \in 1..Len(features) :
                                   features[j].feature_type = features[i].feature_type})>>]
        ELSE features[i]]

\* f.name = f"{f.feature_type}_{i+1}" for the features without a name
NameFeatures(features) ==
    [i \in 1..Len(features) |->
        IF features[i].name = <<>>
        THEN [features[i] EXCEPT !.name = <<features[i].feature_type, i>>]
        ELSE features[i]]

\* FeatureDetector.detect
detect(ms, zp, vd, lib) ==
    NameFeatures(deduplicate(detect_candidates(ms, zp, vd, lib)))

\* ------------------------------------------------------------ feature pipeline
N_Body == Join(<<W_Body>>)

\* A body with two no-holes variants and a removed variant, and a thin body
\* alone.
FeatMeshLists ==
    { << SlabMesh(N_Body, "unknown", 0, 80000, 124),
         SlabMesh(Join(<<W_Body, W_No, W_Holes>>), "variant_no_holes", 0, 80000, 70),
         SlabMesh(Join(<<W_Full, W_Body, W_No, W_Holes>>), "variant_no_holes", 0, 80000, 0),
         SlabMesh(Join(<<W_Body, W_Removed>>), "variant_removed", 0, 80000, 70) >>,
      << SlabMesh(N_Body, "unknown", 0, 500, 70) >> }

\* An L-shaped outline
LPath == << <<0, 0>>, <<20, 0>>, <<20, 2>>, <<2, 2>>, <<2, 20>>, <<0, 20>> >>

\* Outlines a section can hold: squares whose centres are 1 mm and 0.707 mm
\* apart, slots whose corners are 1 mm apart, an L, and a square below
\* MIN_FEATURE_AREA.
FeatPaths ==
    {RectPath(<<0, 0>>, 3, 3, 0, TRUE), RectPath(<<1, 0>>, 3, 3, 0, TRUE),
     RectPath(<<0, 0>>, 4, 4, 0, TRUE),
     RectPath(<<0, 0>>, 20, 2, 0, TRUE), RectPath(<<1, 0>>, 20, 2, 0, TRUE),
     LPath, RectPath(<<0, 0>>, 1, 1, 0, TRUE)}

F_Cyl == [face_type |-> "cylindrical", radius |-> 15000, area |-> 10,
          center_x |-> 15000, center_y |-> 25000, z_min |-> 0]
F_CylBare == [face_type |-> "cylindrical", radius |-> 15000, area |-> 10]
F_CylSmall == [face_type |-> "cylindrical", radius |-> 5000, area |-> 3,
               center_x |-> 0, center_y |-> 0, z_min |-> 0]
F_Torus == [face_type |-> "toroidal", radius |-> 5004, area |-> 10]
F_Plane == [face_type |-> "planar", area |-> 10]

\* brep_face_metadata: absent, or the faces of an imported STEP file
FeatBreps ==
    {<<>>, <<F_Cyl>>, <<F_CylBare, F_Torus>>, <<F_Torus, F_Plane, F_Torus>>,
     <<F_CylSmall, F_Cyl, F_CylBare>>}

FeatEdges ==
    [fillet_edges : {0, 3}, chamfer_edges : {0, 3}, radius : {10000}, size : {10000}]

\* The state after stages 1 to 3 of Pipeline.run_init, with what the
\* libraries will answer in stage 4.
InitFeat ==
    /\ meshes \in FeatMeshLists
    /\ z_profiles = extract(meshes)
    /\ variant_result = variant_compute(meshes)
    /\ variant_diffs = variant_serialise(variant_compute(meshes))
    /\ components = classify(meshes, extract(meshes))
    /\ \E k \in 0..FeatMaxPaths :
         \E paths \in [1..k -> FeatPaths] :
           \E split \in 0..k :
             \E edges \in FeatEdges :
               \E brep \in FeatBreps :
                 arg = [sections |-> <<SubSeq(paths, 1, split), SubSeq(paths, split + 1, k)>>,
                        edges |-> edges, brep |-> brep]
    /\ ret = <<>>
    /\ pc = "classified"

\* Stage 4 of Pipeline.run_init
DetectFeatures ==
    /\ pc = "classified"
    /\ ret' = detect(meshes, z_profiles, variant_diffs, arg)
    /\ pc' = "detected"
    /\ UNCHANGED <<meshes, z_profiles, variant_result, variant_diffs, components, arg>>

NextFeat == DetectFeatures

SpecFeat == InitFeat /\ [][NextFeat]_vars

\* ------------------------------------------------------------ claim C6
Candidates == detect_candidates(meshes, z_profiles, variant_diffs, arg)

Unnamed(features) == [i \in 1..Len(features) |-> [features[i] EXCEPT !.name = <<>>]]

\* The indices up to n of the candidates c that are duplicated by no earlier
\* retained candidate
RECURSIVE RetainedUpTo(_, _)
RetainedUpTo(c, n) ==
    IF n = 0 THEN {}
    ELSE LET before == RetainedUpTo(c, n - 1)
         IN  IF \E i \in before : Duplicates(c[i], c[n]) THEN before
             ELSE before \cup {n}

\* The elements of c at the indices K, in order
Pick(c, K) == LET idx == SortedSeq(K) IN [k \in 1..Len(idx) |-> c[idx[k]]]

\* C6: in the list detect returns, two circular holes have centres at least
\* 1 mm apart (a missing centre counts as 0), two rectangular slots differ by
\* at least 1 mm in x_min or in y_min, two fillets or two chamfers have
\* different provenance; the list is the candidates, in order, without those
\* that duplicate an earlier retained candidate.
C6_NoDuplicatesRetained ==
    pc = "detected" =>
        /\ \A i, j \in 1..Len(ret) :
             (i < j /\ ret[i].feature_type = ret[j].feature_type) =>
                 CASE ret[i].feature_type = "circular_hole" ->
                        \/ Abs(ParamGet(ret[i], "center_x") - ParamGet(ret[j], "center_x")) >= 10000
                        \/ Abs(ParamGet(ret[i], "center_y") - ParamGet(ret[j], "center_y")) >= 10000
                        \/ (ParamGet(ret[i], "center_x") - ParamGet(ret[j], "center_x"))
                             * (ParamGet(ret[i], "center_x") - ParamGet(ret[j], "center_x"))
                           + (ParamGet(ret[i], "center_y") - ParamGet(ret[j], "center_y"))
                             * (ParamGet(ret[i], "center_y") - ParamGet(ret[j], "center_y"))
                           >= 100000000
                   [] ret[i].feature_type = "rectangular_slot" ->
                        \/ Abs(ret[i].params.x_min - ret[j].params.x_min) >= 10000
                        \/ Abs(ret[i].params.y_min - ret[j].params.y_min) >= 10000
                   [] ret[i].feature_type \in {"fillet", "chamfer"} ->
                        ret[i].detected_from # ret[j].detected_from
                   [] OTHER -> TRUE
        /\ LET c == Candidates
           IN  Unnamed(ret) = Pick(c, RetainedUpTo(c, Len(c)))

\* C6 witness: a detection dropped a candidate and retained two circular
\* holes whose centres are exactly 1 mm apart.
C6_Witness ==
    /\ pc = "detected"
    /\ Len(ret) < Len(Candidates)
    /\ \E i, j \in 1..Len(ret) :
         /\ i < j
         /\ ret[i].feature_type = "circular_hole"
         /\ ret[j].feature_type = "circular_hole"
         /\ ParamGet(ret[i], "center_x") = ParamGet(ret[j], "center_x")
         /\ Abs(ParamGet(ret[i], "center_y") - ParamGet(ret[j], "center_y")) = 10000


\* ------------------------------------------------------------ symmetry_detect.py
\* Vertices are <<x, y, z>> in whole millimetres.  verts - centroid is kept
\* multiplied by the number of vertices, which leaves every ratio below
\* unchanged.  Radii are in hundredths of that unit, scores and coefficients
\* of variation in units of 0.0001.

\* _ROT_SCORE_THRESH = 0.75
ROT_SCORE_THRESH == 7500

\* SymmetryResult()
NoSymmetry ==
    [mirror_xz |-> FALSE, mirror_yz |-> FALSE, mirror_xy |-> FALSE,
     rotational_n |-> 0, rotational_score |-> 0]

\* np.sort of a sequence of integers
RECURSIVE SortInts(_)
SortInts(s) ==
    IF s = <<>> THEN <<>>
    ELSE LET m == SetMin(Range(s))
             i == CHOOSE k \in 1..Len(s) : s[k] = m
         IN  <<m>> \o SortInts(SubSeq(s, 1, i - 1) \o SubSeq(s, i + 1, Len(s)))

\* verts - centroid, times len(verts)
Centred(verts) ==
    LET n == Len(verts)
        total(a) == SumSeq([i \in 1..n |-> verts[i][a]])
    IN  [i \in 1..n |-> [a \in 1..3 |-> n * verts[i][a] - total(a)]]

\* mesh.bounds[1] - mesh.bounds[0]
Extents(verts) ==
    [a \in 1..3 |-> SetMax({verts[i][a] : i \in 1..Len(verts)})
                    - SetMin({verts[i][a] : i \in 1..Len(verts)})]

\* _test_mirror_symmetry: tol = extents[axis] * 0.05; False when tol < 1e-6;
\* sorted_mirror[i] = -sorted_orig[n + 1 - i]; more than 0.80 of the
\* differences must be below tol.
test_mirror_symmetry(centred, axis, extents) ==
    LET n == Len(centred)
        sorted == SortInts([i \in 1..n |-> centred[i][axis]])
        close == {i \in 1..n : 20 * Abs(sorted[i] + sorted[n + 1 - i]) < n * extents[axis]}
    IN  /\ extents[axis] > 0
        /\ 5 * Cardinality(close) > 4 * n

\* The angle of (x, y) is at least deg degrees, for deg a multiple of 45 or
\* of 60 in 0..360; arctan2(0, 0) is 0.
RECURSIVE AngleAtLeast(_, _, _)
AngleAtLeast(x, y, deg) ==
    IF deg = 0 THEN TRUE
    ELSE IF deg >= 360 THEN FALSE
    ELSE IF x = 0 /\ y = 0 THEN FALSE
    ELSE IF deg > 180 THEN y < 0 /\ AngleAtLeast(-x, -y, deg - 180)
    ELSE IF deg = 180 THEN y < 0 \/ (y = 0 /\ x < 0)
    ELSE IF y < 0 THEN TRUE
    ELSE IF deg = 90 THEN x <= 0
    ELSE IF deg = 45 THEN x <= 0 \/ y >= x
    ELSE IF deg = 135 THEN x < 0 /\ y <= -x
    ELSE IF deg = 60 THEN x <= 0 \/ y * y >= 3 * x * x
    ELSE x < 0 /\ y * y <= 3 * x * x

\* (angles_deg - k * angular_step) % 360.0 < angular_step, with
\* angular_step = 360 / n
InSector(v, n, k) ==
    /\ AngleAtLeast(v[1], v[2], (k * 360) \div n)
    /\ ~AngleAtLeast(v[1], v[2], ((k + 1) * 360) \div n)

\* sqrt(x^2 + y^2), in hundredths
Radius(v) == ISqrtIn(0, 46340, 10000 * (v[1] * v[1] + v[2] * v[2]))

\* float(sr.std()) / m of one sector, -1 when the mean is not above 1e-6
SectorCV(radii) ==
    LET k == Len(radii)
        m == SumSeq(radii) \div k
        var == SumSeq([i \in 1..k |-> (radii[i] - m) * (radii[i] - m)]) \div k
    IN  IF m <= 0 THEN -1
        ELSE (10000 * ISqrtIn(0, 46340, var)) \div m

\* The score of one n of _test_rotational_symmetry, -1 when cv_list is empty
RotScore(centred, n) ==
    LET cvs == [k \in 0..(n - 1) |->
                    LET members == SelectSeq(centred, LAMBDA v : InSector(v, n, k))
                    IN  IF members = <<>> THEN -1
                        ELSE SectorCV([i \in 1..Len(members) |-> Radius(members[i])])]
        used == {k \in 0..(n - 1) : cvs[k] >= 0}
        total == SumSeq([i \in 1..n |-> IF cvs[i - 1] >= 0 THEN cvs[i - 1] ELSE 0])
    IN  IF used = {} THEN -1
        ELSE Max2(0, 10000 - (total \div Cardinality(used)))

RECURSIVE RotScan(_, _, _)
RotScan(centred, ns, best) ==
    IF ns = <<>> THEN best
    ELSE LET score == RotScore(centred, Head(ns))
         IN  RotScan(centred, Tail(ns),
                     IF score > best.score THEN [n |-> Head(ns), score |-> score]
                     ELSE best)

\* _test_rotational_symmetry
test_rotational_symmetry(centred) ==
    LET best == RotScan(centred, <<2, 3, 4, 6, 8>>, [n |-> 0, score |-> 0])
    IN  IF best.score < ROT_SCORE_THRESH THEN [n |-> 0, score |-> best.score]
        ELSE best

\* SymmetryDetector._analyse_mesh
analyse_mesh(verts) ==
    IF Len(verts) < 8 THEN NoSymmetry
    ELSE LET centred == Centred(verts)
             extents == Extents(verts)
             rot == test_rotational_symmetry(centred)
         IN  [mirror_yz |-> test_mirror_symmetry(centred, 1, extents),
              mirror_xz |-> test_mirror_symmetry(centred, 2, extents),
              mirror_xy |-> test_mirror_symmetry(centred, 3, extents),
              rotational_n |-> rot.n,
              rotational_score |-> rot.score]

\* SymmetryDetector.detect: results[m.name] = self._analyse_mesh(m.mesh)
RECURSIVE SymScan(_, _)
SymScan(ms, results) ==
    IF ms = <<>> THEN results
    ELSE SymScan(Tail(ms),
                 IF Head(ms).kind # "Trimesh" THEN results
                 ELSE DictPut(results, [name |-> Head(ms).name,
                                        result |-> analyse_mesh(Head(ms).vertices)]))

symmetry_detect(ms) == SymScan(ms, <<>>)


\* ------------------------------------------------------------ symmetry inputs
\* The four corners of the square of half-side a about the origin, at height z
Square4(a, z) == << <<a, a, z>>, <<-a, a, z>>, <<-a, -a, z>>, <<a, -a, z>> >>

\* The eight corners of a box; skew moves one top corner outwards
BoxVerts(x, y, z, skew) ==
    << <<x[1], y[1], z[1]>>, <<x[2], y[1], z[1]>>, <<x[2], y[2], z[1]>>, <<x[1], y[2], z[1]>>,
       <<x[1], y[1], z[2]>>, <<x[2], y[1], z[2]>>,
       <<x[2] + (IF skew THEN 2 ELSE 0), y[2] + (IF skew THEN 1 ELSE 0), z[2]>>,
       <<x[1], y[2], z[2]>> >>

SymVertexLists ==
    {Square4(a, z) : a \in {1, 2, 3}, z \in {0, 1}}
    \cup {BoxVerts(x, y, z, skew) :
             x \in {-2, -1} \X {1, 2, 3}, y \in {-2, -1} \X {1, 2, 3},
             z \in {<<0, 0>>, <<0, 1>>, <<-2, 2>>}, skew \in BOOLEAN}

\* A trimesh.Trimesh with its vertices, or a trimesh.Scene, which has none
SymMeshes ==
    {[name |-> nm, kind |-> "Trimesh", vertices |-> v] :
        nm \in {"a", "b"}, v \in SymVertexLists}
    \cup {[name |-> "a", kind |-> "Scene", vertices |-> <<>>]}

InitSym ==
    /\ meshes = <<>>
    /\ z_profiles = NoProfiles
    /\ variant_result = NoVariantResult
    /\ variant_diffs = NoVariantDiffs
    /\ components = <<>>
    /\ \E k \in 1..SymMaxMeshes : arg \in [1..k -> SymMeshes]
    /\ ret = <<>>
    /\ pc = "call"

\* SymmetryDetector().detect(meshes)
DetectSymmetry ==
    /\ pc = "call"
    /\ ret' = symmetry_detect(arg)
    /\ pc' = "returned"
    /\ UNCHANGED <<meshes, z_profiles, variant_result, variant_diffs, components, arg>>

NextSym == DetectSymmetry

SpecSym == InitSym /\ [][NextSym]_vars

\* C11 as stated: a mesh whose vertices are the four corners of a square
\* centred at the origin is reported with mirror_yz and mirror_xz true,
\* rotational order 4 and rotational score 1.0.
C11_SquareIsSymmetric ==
    pc = "returned" =>
        \A i \in 1..Len(arg) :
            (\E a \in 1..3, z \in 0..1 : arg[i].vertices = Square4(a, z)) =>
                LET r == ret[DictIndex(ret, arg[i].name)].result
                IN  /\ r.mirror_yz
                    /\ r.mirror_xz
                    /\ r.rotational_n = 4
                    /\ r.rotational_score = 10000


\* ------------------------------------------------------------ Stage 6: boundary_detect.py
\* COINCIDENCE_TOLERANCE = 0.05 mm
COINCIDENCE_TOLERANCE == 500

\* {m.name: m for m in meshes}: every mesh, the DXF stubs included
AllMeshDict(ms) == DictFrom(<<>>, ms)

AxisLabels == <<"X", "Y", "Z">>

\* The two tests of _compare_pair for one axis
CompareAxis(ca, cb, a_bounds, b_bounds, axis_idx) ==
    (IF Abs(a_bounds[2][axis_idx] - b_bounds[1][axis_idx]) < COINCIDENCE_TOLERANCE
     THEN <<[component_a |-> ca.name, component_b |-> cb.name,
             axis |-> AxisLabels[axis_idx], value |-> a_bounds[2][axis_idx],
             needs_eps |-> TRUE,
             description |-> <<ca.name, AxisLabels[axis_idx], "max",
                               Round3(a_bounds[2][axis_idx]), cb.name, "min">>]>>
     ELSE <<>>)
    \o
    (IF Abs(a_bounds[1][axis_idx] - b_bounds[2][axis_idx]) < COINCIDENCE_TOLERANCE
     THEN <<[component_a |-> ca.name, component_b |-> cb.name,
             axis |-> AxisLabels[axis_idx], value |-> a_bounds[1][axis_idx],
             needs_eps |-> TRUE,
             description |-> <<ca.name, AxisLabels[axis_idx], "min",
                               Round3(a_bounds[1][axis_idx]), cb.name, "max">>]>>
     ELSE <<>>)

\* BoundaryDetector._compare_z_ranges
compare_z_ranges(ca, cb) ==
    (IF Abs(ca.z_min - cb.z_min) < COINCIDENCE_TOLERANCE
     THEN <<[component_a |-> ca.name, component_b |-> cb.name, axis |-> "Z",
             value |-> ca.z_min, needs_eps |-> TRUE,
             description |-> <<"Shared Z=0 bottom face", ca.name, cb.name>>]>>
     ELSE <<>>)
    \o
    (IF Abs(ca.z_max - cb.z_max) < COINCIDENCE_TOLERANCE
     THEN <<[component_a |-> ca.name, component_b |-> cb.name, axis |-> "Z",
             value |-> ca.z_max, needs_eps |-> TRUE,
             description |-> <<"Shared Z-max face", ca.name, cb.name>>]>>
     ELSE <<>>)

\* BoundaryDetector._compare_pair; d is self.meshes
compare_pair(d, ca, cb) ==
    IF DictIndex(d, ca.name) = 0 \/ DictIndex(d, cb.name) = 0 THEN <<>>
    ELSE LET a_bounds == d[DictIndex(d, ca.name)].bounding_box
             b_bounds == d[DictIndex(d, cb.name)].bounding_box
         IN  IF a_bounds = <<>> \/ b_bounds = <<>> THEN compare_z_ranges(ca, cb)
             ELSE CompareAxis(ca, cb, a_bounds, b_bounds, 1)
                  \o CompareAxis(ca, cb, a_bounds, b_bounds, 2)
                  \o CompareAxis(ca, cb, a_bounds, b_bounds, 3)

\* BoundaryDetector._detect: the pairs (i, j), i < j, in the order of the loops
RECURSIVE BoundaryScan(_, _, _, _)
BoundaryScan(d, comps, i, j) ==
    IF i > Len(comps) THEN <<>>
    ELSE IF j > Len(comps) THEN BoundaryScan(d, comps, i + 1, i + 2)
    ELSE compare_pair(d, comps[i], comps[j]) \o BoundaryScan(d, comps, i, j + 1)

\* BoundaryDetector(meshes, components).detect(); round(b.value, 4) leaves a
\* value that is a whole number of units unchanged.
boundary_detect(ms, comps) == BoundaryScan(AllMeshDict(ms), comps, 1, 2)

\* _load_mesh of a box with the given corners
BoxMesh(name, lo, hi) ==
    [name |-> name, file_type |-> "stl", auto_role |-> "unknown",
     z_min |-> lo[3], z_max |-> hi[3],
     verts |-> IF lo[3] = hi[3] THEN <<[z |-> lo[3], n |-> 8]>>
               ELSE <<[z |-> lo[3], n |-> 4], [z |-> hi[3], n |-> 4]>>,
     volume |-> 0,
     bounding_box |-> <<lo, hi>>]

BoundNames == {"a", "b"}

\* X and Y ranges: a square, its neighbour in X, and a square 0.04 mm away
\* in X and exactly 0.05 mm away in Y
BoundXY ==
    {<<<<0, 0>>, <<50000, 50000>>>>, <<<<50000, 0>>, <<100000, 50000>>>>,
     <<<<50400, 50500>>, <<100000, 100000>>>>}

BoundZ == {<<0, 80000>>, <<80000, 100000>>}

BoundMeshes ==
    {BoxMesh(nm, <<xy[1][1], xy[1][2], z[1]>>, <<xy[2][1], xy[2][2], z[2]>>) :
        nm \in BoundNames, xy \in BoundXY, z \in BoundZ}
    \cup {StubMesh("a", "dxf", "unknown"), StubMesh("b", "svg", "unknown")}

\* The state after stages 1 to 3 of Pipeline.run_init
InitBound ==
    /\ \E k \in 1..BoundMaxMeshes : meshes \in [1..k -> BoundMeshes]
    /\ z_profiles = extract(meshes)
    /\ variant_result = NoVariantResult
    /\ variant_diffs = NoVariantDiffs
    /\ components = classify(meshes, z_profiles)
    /\ arg = <<>>
    /\ ret = <<>>
    /\ pc = "classified"

\* Stage 6 of Pipeline.run_init
DetectBoundaries ==
    /\ pc = "classified"
    /\ ret' = boundary_detect(meshes, components)
    /\ pc' = "bounded"
    /\ UNCHANGED <<meshes, z_profiles, variant_result, variant_diffs, components, arg>>

NextBound == DetectBoundaries

SpecBound == InitBound /\ [][NextBound]_vars


\* The mesh a component was classified from
ComponentMesh(c) == LET d == MeshDict(meshes) IN d[DictIndex(d, c.name)]

\* What the two coincidence tests of one axis call for, for components whose
\* meshes have the boxes a_box and b_box
ExpectedOnAxis(ca, cb, a_box, b_box, k) ==
    (IF Abs(a_box[2][k] - b_box[1][k]) < COINCIDENCE_TOLERANCE
     THEN <<[component_a |-> ca.name, component_b |-> cb.name, axis |-> AxisLabels[k],
             value |-> a_box[2][k], needs_eps |-> TRUE]>>
     ELSE <<>>)
    \o
    (IF Abs(a_box[1][k] - b_box[2][k]) < COINCIDENCE_TOLERANCE
     THEN <<[component_a |-> ca.name, component_b |-> cb.name, axis |-> AxisLabels[k],
             value |-> a_box[1][k], needs_eps |-> TRUE]>>
     ELSE <<>>)

\* The boundaries emitted for the pair (ca, cb), without their descriptions
EmittedFor(ca, cb) ==
    LET sel == SelectSeq(ret, LAMBDA b : b.component_a = ca.name /\ b.component_b = cb.name)
    IN  [i \in 1..Len(sel) |->
            [component_a |-> sel[i].component_a, component_b |-> sel[i].component_b,
             axis |-> sel[i].axis, value |-> sel[i].value, needs_eps |-> sel[i].needs_eps]]

\* C12 as stated: for every pair of components whose meshes both have a
\* bounding box, the boundaries emitted for the pair are exactly one per
\* coincidence (first max against second min, first min against second max,
\* closer than 0.05 mm) per axis, with the first component's coordinate as
\* value and needs_eps true.
C12_OnePerCoincidence ==
    pc = "bounded" =>
        \A i, j \in 1..Len(components) :
            (/\ i < j
             /\ ComponentMesh(components[i]).bounding_box # <<>>
             /\ ComponentMesh(components[j]).bounding_box # <<>>) =>
                LET ca == components[i]
                    cb == components[j]
                    a_box == ComponentMesh(ca).bounding_box
                    b_box == ComponentMesh(cb).bounding_box
                IN  EmittedFor(ca, cb) =
                        ExpectedOnAxis(ca, cb, a_box, b_box, 1)
                        \o ExpectedOnAxis(ca, cb, a_box, b_box, 2)
                        \o ExpectedOnAxis(ca, cb, a_box, b_box, 3)


\* ------------------------------------------------------------ pattern_detect.py
\* Feature parameters are in units of 0.0001 mm and, being rounded to three
\* decimals, multiples of 10; centres are handled in thousandths of a
\* millimetre, directions in units of 0.0001, angles in whole degrees.

\* _SPACING_TOL = 0.5 mm, in thousandths
SPACING_TOL == 500

\* _ANGULAR_TOL = 1.0 degree
ANGULAR_TOL == 1

\* _MIN_PATTERN = 3
MIN_PATTERN == 3

\* n / d rounded to the nearest integer, a tie going to the even one; d > 0
RoundDiv(n, d) ==
    LET q == n \div d
        r == n % d
    IN  IF 2 * r < d THEN q
        ELSE IF 2 * r > d THEN q + 1
        ELSE IF q % 2 = 0 THEN q ELSE q + 1

\* round(x, 1) of a length in units, in tenths of a millimetre
Round1(v) == RoundDiv(v, 1000)

\* _feature_size_key
feature_size_key(f) ==
    IF f.feature_type = "circular_hole"
    THEN <<f.feature_type, Round1(ParamGet(f, "diameter"))>>
    ELSE IF f.feature_type \in {"rectangular_slot", "notch"}
    THEN <<f.feature_type, Round1(ParamGet(f, "width")), Round1(ParamGet(f, "height"))>>
    ELSE <<f.feature_type>>

\* The keys of _group_by_type_and_size, in the order of their first feature
RECURSIVE GroupKeys(_, _)
GroupKeys(features, keys) ==
    IF features = <<>> THEN keys
    ELSE LET k == feature_size_key(Head(features))
         IN  GroupKeys(Tail(features),
                       IF \E i \in 1..Len(keys) : keys[i] = k THEN keys ELSE Append(keys, k))

\* _extract_centres, in thousandths of a millimetre
extract_centres(group) ==
    LET has_centre(f) == {"center_x", "center_y"} \subseteq DOMAIN f.params
        has_box(f) == {"x_min", "x_max", "y_min", "y_max"} \subseteq DOMAIN f.params
        with == SelectSeq(group, LAMBDA f : has_centre(f) \/ has_box(f))
    IN  [i \in 1..Len(with) |->
            IF has_centre(with[i])
            THEN <<with[i].params.center_x \div 10, with[i].params.center_y \div 10>>
            ELSE <<(with[i].params.x_min + with[i].params.x_max) \div 20,
                   (with[i].params.y_min + with[i].params.y_max) \div 20>>]

\* p comes before q in np.lexsort((y, x)): by x, then by y
LexLess(p, q) == p[1] < q[1] \/ (p[1] = q[1] /\ p[2] < q[2])

\* The centres left in the order of the features
LexSort_unsorted(pts) == pts

RECURSIVE LexSort(_)
LexSort(pts) ==
    IF pts = <<>> THEN <<>>
    ELSE LET i == CHOOSE k \in 1..Len(pts) :
                     /\ \A j \in 1..Len(pts) : ~LexLess(pts[j], pts[k])
                     /\ \A j \in 1..(k - 1) : LexLess(pts[k], pts[j])
         IN  <<pts[i]>> \o LexSort(SubSeq(pts, 1, i - 1) \o SubSeq(pts, i + 1, Len(pts)))

NoPattern == [found |-> FALSE]

\* PatternDetector._test_linear; total_dist is the integer square root, which
\* is the exact distance for the centres used here.
test_linear(centres) ==
    IF Len(centres) < MIN_PATTERN THEN NoPattern
    ELSE LET pts == LexSort(centres)
             n == Len(pts)
             v == <<pts[n][1] - pts[1][1], pts[n][2] - pts[1][2]>>
             t2 == v[1] * v[1] + v[2] * v[2]
             total_dist == ISqrtIn(0, 46340, t2)
             gap_ok(i) ==
                 LET delta == <<pts[i + 1][1] - pts[i][1], pts[i + 1][2] - pts[i][2]>>
                     dot == delta[1] * v[1] + delta[2] * v[2]
                     cross == delta[1] * v[2] - delta[2] * v[1]
                 IN  /\ ~(Abs(cross) > SPACING_TOL * total_dist)
                     /\ ~(Abs(dot * (n - 1) - t2) > SPACING_TOL * total_dist * (n - 1))
         IN  IF total_dist = 0 THEN NoPattern
             ELSE IF \E i \in 1..(n - 1) : ~gap_ok(i) THEN NoPattern
             ELSE [found |-> TRUE,
                   spacing |-> 10 * RoundDiv(total_dist, n - 1),
                   direction |-> <<RoundDiv(10000 * Abs(v[1]), total_dist)
                                     * (IF v[1] < 0 THEN -1 ELSE 1),
                                   RoundDiv(10000 * Abs(v[2]), total_dist)
                                     * (IF v[2] < 0 THEN -1 ELSE 1)>>,
                   start |-> <<10 * pts[1][1], 10 * pts[1][2]>>]

\* tan of 1..45 degrees, times 10000
TanTable ==
    <<175, 349, 524, 699, 875, 1051, 1228, 1405, 1584, 1763, 1944, 2126, 2309,
      2493, 2679, 2867, 3057, 3249, 3443, 3640, 3839, 4040, 4245, 4452, 4663,
      4877, 5095, 5317, 5543, 5774, 6009, 6249, 6494, 6745, 7002, 7265, 7536,
      7813, 8098, 8391, 8693, 9004, 9325, 9657, 10000>>

\* math.degrees(math.atan2(y, x)) % 360, to the whole degree
AngleDeg(x, y) ==
    LET ax == Abs(x)
        ay == Abs(y)
        oct(a, b) == Cardinality({d \in 1..45 : 10000 * b >= TanTable[d] * a})
        first == IF ax = 0 /\ ay = 0 THEN 0
                 ELSE IF ay <= ax THEN oct(ax, ay) ELSE 90 - oct(ay, ax)
    IN  IF x >= 0 /\ y >= 0 THEN first
        ELSE IF x < 0 /\ y >= 0 THEN 180 - first
        ELSE IF x < 0 THEN 180 + first
        ELSE (360 - first) % 360

\* n / d rounded to the nearest integer for n of either sign; d # 0
SignedRoundDiv(n, d) ==
    LET sign == IF (n < 0) = (d < 0) THEN 1 ELSE -1
    IN  sign * RoundDiv(Abs(n), Abs(d))

\* _circumcircle of three centres; the sums are formed in tenths of a
\* millimetre, the centre and the radius are in thousandths.
circumcircle(a, b, c) ==
    LET ax == a[1] \div 100
        ay == a[2] \div 100
        bx == b[1] \div 100
        by == b[2] \div 100
        cx == c[1] \div 100
        cy == c[2] \div 100
        d == 2 * (ax * (by - cy) + bx * (cy - ay) + cx * (ay - by))
        nx == (ax * ax + ay * ay) * (by - cy) + (bx * bx + by * by) * (cy - ay)
              + (cx * cx + cy * cy) * (ay - by)
        ny == (ax * ax + ay * ay) * (cx - bx) + (bx * bx + by * by) * (ax - cx)
              + (cx * cx + cy * cy) * (bx - ax)
    IN  IF d = 0 THEN [found |-> FALSE]
        ELSE LET ux == SignedRoundDiv(100 * nx, d)
                 uy == SignedRoundDiv(100 * ny, d)
             IN  [found |-> TRUE, ux |-> ux, uy |-> uy,
                  r |-> ISqrtIn(0, 46340,
                                (a[1] - ux) * (a[1] - ux) + (a[2] - uy) * (a[2] - uy))]

\* PatternDetector._test_circular
test_circular(centres) ==
    IF Len(centres) < MIN_PATTERN THEN NoPattern
    ELSE LET circle == circumcircle(centres[1], centres[2], centres[3])
             n == Len(centres)
         IN  IF ~circle.found THEN NoPattern
             ELSE IF circle.r < 1 THEN NoPattern
             ELSE IF \E i \in 1..n :
                        Abs(ISqrtIn(0, 46340,
                                (centres[i][1] - circle.ux) * (centres[i][1] - circle.ux)
                                + (centres[i][2] - circle.uy) * (centres[i][2] - circle.uy))
                            - circle.r) > SPACING_TOL
             THEN NoPattern
             ELSE LET angles == SortInts([i \in 1..n |->
                                    AngleDeg(centres[i][1] - circle.ux,
                                             centres[i][2] - circle.uy)])
                      spacings == [i \in 1..n |->
                                      IF i < n THEN (angles[i + 1] - angles[i]) % 360
                                      ELSE (360 - angles[n] + angles[1]) % 360]
                      total == SumSeq(spacings)
                  IN  IF \E i \in 1..n : Abs(n * spacings[i] - total) > n * ANGULAR_TOL
                      THEN NoPattern
                      ELSE [found |-> TRUE,
                            radius |-> 10 * circle.r,
                            angular_spacing_deg |-> RoundDiv(100 * total, n),
                            arc_center |-> <<10 * circle.ux, 10 * circle.uy>>]

\* The body of the loop of PatternDetector.detect for one group
PatternOfGroup(key, group) ==
    LET centres == extract_centres(group)
        lin == test_linear(centres)
        circ == test_circular(centres)
        names == [i \in 1..Len(group) |-> group[i].name]
    IN  IF Len(group) < MIN_PATTERN \/ Len(centres) < MIN_PATTERN THEN <<>>
        ELSE IF lin.found
        THEN <<[pattern_type |-> "linear", feature_type |-> key[1], count |-> Len(group),
                spacing |-> lin.spacing, direction |-> lin.direction, start |-> lin.start,
                member_names |-> names]>>
        ELSE IF circ.found
        THEN <<[pattern_type |-> "circular", feature_type |-> key[1], count |-> Len(group),
                radius |-> circ.radius, angular_spacing_deg |-> circ.angular_spacing_deg,
                arc_center |-> circ.arc_center, member_names |-> names]>>
        ELSE <<>>

RECURSIVE PatternScan(_, _)
PatternScan(features, keys) ==
    IF keys = <<>> THEN <<>>
    ELSE PatternOfGroup(Head(keys),
                        SelectSeq(features, LAMBDA f : feature_size_key(f) = Head(keys)))
         \o PatternScan(features, Tail(keys))

\* PatternDetector.detect
pattern_detect(features) == PatternScan(features, GroupKeys(features, <<>>))


\* ------------------------------------------------------------ pattern inputs
\* A circular hole as FeatureDetector emits it; centre in mm, diameter in units
Hole(c, diameter) ==
    [name |-> <<>>, feature_type |-> "circular_hole",
     detected_from |-> <<"cross_section_z", 1, "a">>,
     params |-> [center_x |-> 10000 * c[1], center_y |-> 10000 * c[2],
                 diameter |-> diameter, z_level |-> 1000]]

\* Centres on the line y = 0 every 3 mm, on the line through (0,0) and (3,4),
\* and on the circle of radius 4 mm about (5,5)
PatCentres ==
    {<<0, 0>>, <<3, 0>>, <<9, 0>>, <<3, 4>>, <<6, 8>>,
     <<9, 5>>, <<5, 9>>, <<1, 5>>, <<5, 1>>}

PatFeatures ==
    {Hole(c, 30000) : c \in PatCentres}
    \cup {Hole(<<6, 0>>, 30400),
          [name |-> <<>>, feature_type |-> "rectangular_slot",
           detected_from |-> <<"cross_section_z", 1, "a">>,
           params |-> [x_min |-> 0, x_max |-> 200000, y_min |-> 0, y_max |-> 20000,
                       width |-> 200000, height |-> 20000, z_level |-> 1000]]}

InitPat ==
    /\ meshes = <<>>
    /\ z_profiles = NoProfiles
    /\ variant_result = NoVariantResult
    /\ variant_diffs = NoVariantDiffs
    /\ components = <<>>
    /\ \E k \in 1..PatMaxFeatures :
         \E fs \in [1..k -> PatFeatures] : arg = NameFeatures(fs)
    /\ ret = <<>>
    /\ pc = "call"

\* PatternDetector().detect(features)
DetectPatterns ==
    /\ pc = "call"
    /\ ret' = pattern_detect(arg)
    /\ pc' = "returned"
    /\ UNCHANGED <<meshes, z_profiles, variant_result, variant_diffs, components, arg>>

NextPat == DetectPatterns

SpecPat == InitPat /\ [][NextPat]_vars

\* The features of arg with the kind and rounded size of arg[i]
GroupOf(i) == SelectSeq(arg, LAMBDA f : feature_size_key(f) = feature_size_key(arg[i]))

\* The centres of a group of holes, in thousandths of a millimetre
HoleCentres(group) ==
    [i \in 1..Len(group) |->
        <<group[i].params.center_x \div 10, group[i].params.center_y \div 10>>]

\* The set of points S is a run start, start + step, ..., with step # <<0, 0>>
UniformRun(S, start, step) ==
    /\ step # <<0, 0>>
    /\ S = {<<start[1] + k * step[1], start[2] + k * step[2]>> :
               k \in 0..(Cardinality(S) - 1)}

\* C13: a group of n >= 3 holes of one rounded size whose centres are n
\* distinct collinear, uniformly spaced points yields exactly one pattern; it
\* is linear, has count n, spacing the distance between the extreme centres
\* over n - 1, the unit direction from the first to the last centre in (x, y)
\* order, and the first centre as start.
C13_LinearPattern ==
    pc = "returned" =>
        \A i \in 1..Len(arg) :
            LET group == GroupOf(i)
                n == Len(group)
                pts == HoleCentres(group)
                S == Range(pts)
                first == CHOOSE p \in S : \A q \in S : ~LexLess(q, p)
                last == CHOOSE p \in S : \A q \in S : ~LexLess(p, q)
                names == [k \in 1..n |-> group[k].name]
                mine == {k \in 1..Len(ret) : ret[k].member_names = names}
            IN  (/\ arg[i].feature_type = "circular_hole"
                 /\ n >= 3
                 /\ Cardinality(S) = n
                 /\ \E step \in {<<(last[1] - first[1]) \div (n - 1),
                                   (last[2] - first[2]) \div (n - 1)>>} :
                        UniformRun(S, first, step))
                => /\ Cardinality(mine) = 1
                   /\ \A k \in mine :
                        LET pat == ret[k]
                            dx == (last[1] - first[1]) \div (n - 1)
                            dy == (last[2] - first[2]) \div (n - 1)
                            sp == pat.spacing \div 10
                        IN  /\ pat.pattern_type = "linear"
                            /\ pat.count = n
                            /\ pat.spacing = 10 * sp
                            /\ sp * sp = dx * dx + dy * dy
                            /\ pat.direction[1] * sp = 10000 * dx
                            /\ pat.direction[2] * sp = 10000 * dy
                            /\ pat.start = <<10 * first[1], 10 * first[2]>>

\* C13 witness: three holes listed out of order on the line through (0,0) and
\* (3,4) came back as one linear pattern with spacing 5 mm and direction
\* (0.6, 0.8).
C13_Witness ==
    /\ pc = "returned"
    /\ Len(arg) >= 3
    /\ ParamGet(arg[1], "center_x") > ParamGet(arg[2], "center_x")
    /\ \E k \in 1..Len(ret) :
         /\ ret[k].pattern_type = "linear"
         /\ ret[k].count = 3
         /\ ret[k].spacing = 50000
         /\ ret[k].direction = <<6000, 8000>>
         /\ ret[k].start = <<0, 0>>


\* ------------------------------------------------------------ failing sub-operations
\* A metadata entry holds None under key (a JSON null of the importer)
IsNone(face, key) == "none_keys" \in DOMAIN face /\ key \in face.none_keys

\* One face of _features_from_brep raises TypeError: `radius > 0` or
\* `area >= MIN_FEATURE_AREA` compares None with a number, round() is given
\* None. The conditions are evaluated left to right and stop at the first
\* false one.
FaceRaises(face) ==
    IF FaceGet(face, "face_type") = "cylindrical"
    THEN \/ IsNone(face, "radius")
         \/ /\ FaceGet(face, "radius") > 0
            /\ \/ IsNone(face, "area")
               \/ /\ FaceGet(face, "area") >= MIN_FEATURE_AREA
                  /\ \E key \in {"center_x", "center_y", "z_min"} : IsNone(face, key)
    ELSE FaceGet(face, "face_type") = "toroidal" /\ IsNone(face, "radius")

\* The sections of the levels whose tm.section(...) raises are lost to the
\* except clause of _analyse_cross_section
CaughtSections(lib) ==
    [i \in 1..Len(lib.sections) |->
        IF i \in lib.section_raises THEN <<>> ELSE lib.sections[i]]

\* The edge classification lost to the except clause of
\* _detect_fillets_chamfers when the face normals cannot be computed
CaughtEdges(lib) ==
    IF lib.normals_raise THEN [lib.edges EXCEPT !.fillet_edges = 0, !.chamfer_edges = 0]
    ELSE lib.edges

\* FeatureDetector.detect with sub-operations that can fail: what it returns,
\* or that it raised.
detect_outcome(ms, zp, vd, lib) ==
    IF /\ BodyMesh(ms, zp) # <<>>
       /\ lib.brep # <<>>
       /\ \E i \in 1..Len(lib.brep) : FaceRaises(lib.brep[i])
    THEN [raised |-> TRUE, features |-> <<>>]
    ELSE [raised |-> FALSE,
          features |-> detect(ms, zp, vd,
                              [sections |-> CaughtSections(lib),
                               edges |-> CaughtEdges(lib),
                               brep |-> lib.brep])]

F_CylNone == [face_type |-> "cylindrical", area |-> 10, none_keys |-> {"radius"}]
F_PlaneNone == [face_type |-> "planar", area |-> 10, none_keys |-> {"radius"}]

\* brep_face_metadata with entries that hold no radius
ErrBreps ==
    {<<>>, <<F_Cyl>>, <<F_PlaneNone, F_Cyl>>, <<F_Cyl, F_CylNone, F_Torus>>}

InitErr ==
    /\ meshes \in FeatMeshLists \cup {<<>>}
    /\ z_profiles = extract(meshes)
    /\ variant_result = variant_compute(meshes)
    /\ variant_diffs = variant_serialise(variant_compute(meshes))
    /\ components = classify(meshes, extract(meshes))
    /\ \E k \in 0..ErrMaxPaths :
         \E paths \in [1..k -> FeatPaths] :
           \E split \in 0..k :
             \E edges \in FeatEdges :
               \E brep \in ErrBreps :
                 \E section_raises \in SUBSET {1, 2} :
                   \E normals_raise \in BOOLEAN :
                     arg = [sections |-> <<SubSeq(paths, 1, split), SubSeq(paths, split + 1, k)>>,
                            edges |-> edges, brep |-> brep,
                            section_raises |-> section_raises,
                            normals_raise |-> normals_raise]
    /\ ret = <<>>
    /\ pc = "classified"

\* Stage 4 of Pipeline.run_init; an exception of detect leaves run_init
DetectFeaturesOrRaise ==
    /\ pc = "classified"
    /\ LET out == detect_outcome(meshes, z_profiles, variant_diffs, arg)
       IN  /\ ret' = out.features
           /\ pc' = IF out.raised THEN "raised" ELSE "detected"
    /\ UNCHANGED <<meshes, z_profiles, variant_result, variant_diffs, components, arg>>

NextErr == DetectFeaturesOrRaise

SpecErr == InitErr /\ [][NextErr]_vars

\* C14: no stage entry point raises; a failing sub-operation (here a section,
\* the normals, a labelled-surface metadata entry) leaves the stage returning
\* its result.
C14_NoStageRaises == pc # "raised"


\* ------------------------------------------------------------ archetype_detect.py
\* _INTENT_CATEGORY_MAP
INTENT_CATEGORY_MAP ==
    [flat_plate |-> "flat_plate", box_enclosure |-> "box_enclosure",
     handle |-> "rotational", rotational |-> "rotational",
     bracket |-> "flat_plate", organic |-> "organic", custom |-> ""]

\* FLAT_ASPECT_RATIO = 4.0
FLAT_ASPECT_RATIO == 4

\* ROTATIONAL_SCORE_THRESH = 0.75, in units of 0.0001
ROTATIONAL_SCORE_THRESH == 7500

\* SHELL_VOLUME_RATIO = 0.12
SHELL_VOLUME_RATIO == [num |-> 12, den |-> 100]

\* ASSEMBLY_MIN_BODIES = 2
ASSEMBLY_MIN_BODIES == 2

\* getattr(intent, "object_category", "custom")
ObjectCategory(intent) ==
    IF "object_category" \in DOMAIN intent THEN intent.object_category ELSE "custom"

\* _INTENT_CATEGORY_MAP.get(user_category, "")
MappedArchetype(intent) ==
    IF ObjectCategory(intent) \in DOMAIN INTENT_CATEGORY_MAP
    THEN INTENT_CATEGORY_MAP[ObjectCategory(intent)] ELSE ""

\* _is_solid_mesh; the vertices of a mesh are points in tenths of a millimetre
is_solid_mesh(m) ==
    /\ m.file_type \notin {"dxf", "svg"}
    /\ Len(m.mesh.vertices) >= 4

\* Boxes that overlap as soon as their intervals overlap on one axis
boxes_overlap_on_one_axis(a, b) ==
    \E axis \in 1..3 : ~(a[2][axis] < b[1][axis] \/ b[2][axis] < a[1][axis])

\* _boxes_overlap
boxes_overlap(a, b) ==
    ~ \E axis \in 1..3 : a[2][axis] < b[1][axis] \/ b[2][axis] < a[1][axis]

\* _are_disjoint
are_disjoint(ms) ==
    LET boxes == SelectSeq([i \in 1..Len(ms) |-> ms[i].bounding_box],
                           LAMBDA bb : bb # <<>>)
    IN  /\ Len(boxes) >= 2
        /\ \A i \in 1..Len(boxes) : \A j \in (i + 1)..Len(boxes) :
               ~boxes_overlap(boxes[i], boxes[j])

\* mesh.bounds
Bounds(vertices) ==
    [k \in 1..2 |->
        [axis \in 1..3 |->
            LET cs == {vertices[i][axis] : i \in 1..Len(vertices)}
            IN  IF k = 1 THEN SetMin(cs) ELSE SetMax(cs)]]

\* The vertices less their centroid in the XY plane, times their number
ArchCentred(vertices) ==
    LET n == Len(vertices)
        sx == SumSeq([i \in 1..n |-> vertices[i][1]])
        sy == SumSeq([i \in 1..n |-> vertices[i][2]])
    IN  [i \in 1..n |-> <<n * vertices[i][1] - sx, n * vertices[i][2] - sy>>]

\* The sector of 22.5 degrees, counted from 0, that holds the direction
\* (x, y) with x > 0 and y >= 0; tan 22.5 = sqrt(2) - 1, tan 67.5 = sqrt(2) + 1
QuadrantSector(x, y) ==
    IF (x + y) * (x + y) < 2 * x * x THEN 0
    ELSE IF y < x THEN 1
    ELSE IF (y - x) * (y - x) < 2 * x * x THEN 2
    ELSE 3

\* The sector of 22.5 degrees that holds the angle of v in [0, 360)
Sector16(v) ==
    LET x == v[1]
        y == v[2]
    IN  IF x = 0 /\ y = 0 THEN 0
        ELSE IF x > 0 /\ y >= 0 THEN QuadrantSector(x, y)
        ELSE IF x <= 0 /\ y > 0 THEN 4 + QuadrantSector(y, -x)
        ELSE IF x < 0 /\ y <= 0 THEN 8 + QuadrantSector(-x, -y)
        ELSE 12 + QuadrantSector(-y, x)

\* in_sector = (theta >= a) & (theta < a_next) with theta = np.arctan2(...),
\* which lies in (-180, 180] degrees, and a = 22.5 * k in [0, 360): a vertex
\* below the centroid (y < 0) has a negative theta and is in no sector.
in_sector(v, k) == v[2] >= 0 /\ Sector16(v) = k

\* radii, in the units of ArchCentred
ArchRadius(v) == ISqrtIn(0, 46340, v[1] * v[1] + v[2] * v[2])

\* max(0, 1 - norm.std() / norm.mean()) of the sector maxima, in units of 0.0001
ScoreOfSectors(sector_max_r) ==
    IF SetMax(Range(sector_max_r)) = 0 THEN 0
    ELSE Max2(0, 10000 - SectorCV(sector_max_r))

\* _rotational_score
rotational_score(mesh) ==
    IF Len(mesh.vertices) < 8 THEN 0
    ELSE LET centred == ArchCentred(mesh.vertices)
             sector_max_r ==
                 [k \in 1..16 |->
                     LET members == {i \in 1..Len(centred) : in_sector(centred[i], k - 1)}
                     IN  IF members = {} THEN 0
                         ELSE SetMax({ArchRadius(centred[i]) : i \in members})]
         IN  ScoreOfSectors(sector_max_r)

\* _is_box_like; face_normals holds each normal, times 1000, with the number
\* of faces that have it
is_box_like(mesh) ==
    LET faces == SumSeq([i \in 1..Len(mesh.face_normals) |-> mesh.face_normals[i].faces])
        aligned ==
            SumSeq([i \in 1..Len(mesh.face_normals) |->
                      IF \E axis \in 1..3 : Abs(mesh.face_normals[i].normal[axis]) > 900
                      THEN mesh.face_normals[i].faces ELSE 0])
    IN  faces # 0 /\ 10 * aligned > 7 * faces

\* _is_organic; the bounding box volume is in thousandths of a mm^3
is_organic(mesh) ==
    LET b == Bounds(mesh.vertices)
        vol_bb == (b[2][1] - b[1][1]) * (b[2][2] - b[1][2]) * (b[2][3] - b[1][3])
    IN  /\ Len(mesh.vertices) >= 50
        /\ IF vol_bb <= 0 THEN TRUE ELSE 1000 * Len(mesh.vertices) > 5 * vol_bb

\* The heuristic analysis of ArchetypeDetector.detect (step 2)
archetype_heuristics(ms, zp, intent) ==
    LET solid_meshes == SelectSeq(ms, is_solid_mesh)
    IN  IF ms = <<>> THEN "flat_plate"
        ELSE IF solid_meshes = <<>> THEN "flat_plate"
        ELSE IF Len(solid_meshes) >= ASSEMBLY_MIN_BODIES /\ are_disjoint(solid_meshes)
        THEN "assembly"
        ELSE LET mesh == MaxVolumeMesh(solid_meshes).mesh
                 b == Bounds(mesh.vertices)
                 dx == b[2][1] - b[1][1]
                 dy == b[2][2] - b[1][2]
                 dz == b[2][3] - b[1][3]
                 xy_max == Max2(dx, dy)
                 min_dim == SetMin({dx, dy, dz})
             IN  IF dz = 0 THEN "flat_plate"
                 ELSE IF xy_max >= FLAT_ASPECT_RATIO * dz /\ Len(zp.all_levels) <= 3
                 THEN "flat_plate"
                 ELSE IF rotational_score(mesh) >= ROTATIONAL_SCORE_THRESH THEN "rotational"
                 ELSE IF /\ mesh.area > 0 /\ mesh.volume > 0 /\ min_dim > 0
                         /\ SHELL_VOLUME_RATIO.den * mesh.volume
                                < SHELL_VOLUME_RATIO.num * mesh.area * min_dim
                 THEN "shell"
                 ELSE IF is_box_like(mesh) THEN "box_enclosure"
                 ELSE IF is_organic(mesh) THEN "organic"
                 ELSE "flat_plate"

\* detect without step 1, the intent's category
archetype_detect_ignoring_intent(ms, zp, intent) == archetype_heuristics(ms, zp, intent)

\* ArchetypeDetector.detect
archetype_detect(ms, zp, intent) ==
    IF MappedArchetype(intent) # "" THEN MappedArchetype(intent)
    ELSE archetype_heuristics(ms, zp, intent)


\* ------------------------------------------------------------ archetype inputs
\* The normals of the twelve triangles of a box
BoxNormals ==
    << [normal |-> <<1000, 0, 0>>, faces |-> 2], [normal |-> <<-1000, 0, 0>>, faces |-> 2],
       [normal |-> <<0, 1000, 0>>, faces |-> 2], [normal |-> <<0, -1000, 0>>, faces |-> 2],
       [normal |-> <<0, 0, 1000>>, faces |-> 2], [normal |-> <<0, 0, -1000>>, faces |-> 2] >>

\* A trimesh box of dx by dy by dz tenths of a millimetre with the volume
\* (thousandths of a mm^3) and area (hundredths of a mm^2) of its faces
BoxShape(dx, dy, dz, volume, area) ==
    [vertices |-> BoxVerts(<<0, dx>>, <<0, dy>>, <<0, dz>>, FALSE),
     volume |-> volume, area |-> area, face_normals |-> BoxNormals]

\* Sixteen points, one in each sector of 22.5 degrees, at q times a radius
\* of about 1 mm (q = 4) around the origin, at height z
Ring16(q, z) ==
    LET a == (5 * q) \div 2
        b == (2 * q) \div 4
        c == 2 * q
        d == (3 * q) \div 2
        quarter == << <<a, b>>, <<c, d>>, <<d, c>>, <<b, a>> >>
    IN  [i \in 1..16 |->
            LET p == quarter[((i - 1) % 4) + 1]
                turn == (i - 1) \div 4
            IN  IF turn = 0 THEN <<p[1], p[2], z>>
                ELSE IF turn = 1 THEN <<-p[2], p[1], z>>
                ELSE IF turn = 2 THEN <<-p[1], -p[2], z>>
                ELSE <<p[2], -p[1], z>>]

\* Two cones of radius 1 mm and height 1.5 mm base to base
Bicone ==
    [vertices |-> Ring16(4, 15) \o << <<0, 0, 0>>, <<0, 0, 30>> >>,
     volume |-> 3142, area |-> 1133,
     face_normals |->
        << [normal |-> <<588, 588, 555>>, faces |-> 4], [normal |-> <<-588, 588, 555>>, faces |-> 4],
           [normal |-> <<-588, -588, 555>>, faces |-> 4], [normal |-> <<588, -588, 555>>, faces |-> 4],
           [normal |-> <<588, 588, -555>>, faces |-> 4], [normal |-> <<-588, 588, -555>>, faces |-> 4],
           [normal |-> <<-588, -588, -555>>, faces |-> 4], [normal |-> <<588, -588, -555>>, faces |-> 4] >>]

\* A lens of 50 vertices: rings of radius 0.8, 1 and 0.8 mm between two tips,
\* 2 mm high
Lens ==
    [vertices |-> Ring16(3, 5) \o Ring16(4, 10) \o Ring16(3, 15)
                  \o << <<0, 0, 0>>, <<0, 0, 20>> >>,
     volume |-> 3225, area |-> 1083,
     face_normals |->
        << [normal |-> <<928, 0, 371>>, faces |-> 8], [normal |-> <<0, 928, -371>>, faces |-> 8],
           [normal |-> <<656, 656, 371>>, faces |-> 24], [normal |-> <<-656, 656, -371>>, faces |-> 24],
           [normal |-> <<375, 375, 848>>, faces |-> 16], [normal |-> <<-375, -375, -848>>, faces |-> 16] >>]

\* A plate of 8 by 8 by 1 mm with steps at 0.3 and 0.6 mm
StepPlate ==
    [vertices |-> BoxVerts(<<0, 80>>, <<0, 80>>, <<0, 3>>, FALSE)
                  \o BoxVerts(<<0, 80>>, <<0, 80>>, <<6, 10>>, FALSE),
     volume |-> 50000, area |-> 15000, face_normals |-> BoxNormals]

\* A flat square, and a single triangle
Flat0 ==
    [vertices |-> << <<0, 0, 0>>, <<40, 0, 0>>, <<40, 40, 0>>, <<0, 40, 0>> >>,
     volume |-> 0, area |-> 3200,
     face_normals |-> << [normal |-> <<0, 0, 1000>>, faces |-> 2] >>]

Triangle ==
    [vertices |-> << <<0, 0, 0>>, <<40, 0, 0>>, <<0, 40, 5>> >>,
     volume |-> 0, area |-> 800,
     face_normals |-> << [normal |-> <<-124, -124, 985>>, faces |-> 1] >>]

\* A plate at the aspect ratio 4.0 and one just below it, a thin-walled box,
\* two boxes at and just below SHELL_VOLUME_RATIO, and the shapes above
ArchShapes ==
    {BoxShape(40, 40, 10, 16000, 4800), BoxShape(39, 39, 10, 15210, 4602),
     BoxShape(39, 39, 30, 4000, 15444),
     BoxShape(39, 39, 30, 3600, 1000), BoxShape(39, 39, 30, 3599, 1000),
     Bicone, Lens, StepPlate, Flat0, Triangle}

\* The vertices moved by off along x
Translate(vertices, off) ==
    [i \in 1..Len(vertices) |-> <<vertices[i][1] + off, vertices[i][2], vertices[i][3]>>]

\* tm.vertices[:, 2] of the vertices, as the z values, in units of 0.0001 mm,
\* with their numbers
ZHistogram(vertices) ==
    LET zs == SortedSeq({vertices[i][3] : i \in 1..Len(vertices)})
    IN  [k \in 1..Len(zs) |->
            [z |-> 1000 * zs[k],
             n |-> Cardinality({i \in 1..Len(vertices) : vertices[i][3] = zs[k]})]]

\* _load_mesh of a shape
ArchMesh(name, shape, off) ==
    LET vertices == Translate(shape.vertices, off)
        b == Bounds(vertices)
    IN  [name |-> name, file_type |-> "stl", auto_role |-> "unknown",
         z_min |-> 1000 * b[1][3], z_max |-> 1000 * b[2][3],
         verts |-> ZHistogram(vertices), volume |-> shape.volume,
         bounding_box |-> b,
         mesh |-> [shape EXCEPT !.vertices = vertices]]

ArchNames == <<"a", "b", "c">>

\* What load_all can put at position i of the mesh list
ArchMeshes(i) ==
    {ArchMesh(ArchNames[i], shape, off) : shape \in ArchShapes, off \in {0, 200}}
    \cup {StubMesh(ArchNames[i], "dxf", "unknown"), StubMesh(ArchNames[i], "svg", "unknown")}

\* The object categories of the questionnaire, one it does not know, and an
\* intent without the attribute
ArchIntents ==
    {[object_category |-> c] :
        c \in {"flat_plate", "box_enclosure", "handle", "rotational", "bracket",
               "organic", "custom", "gear"}}
    \cup {[description |-> "part"]}

\* The mesh lists of length k that load_all can return
RECURSIVE ArchMeshLists(_)
ArchMeshLists(k) ==
    IF k = 0 THEN {<<>>}
    ELSE {Append(ms, m) : ms \in ArchMeshLists(k - 1), m \in ArchMeshes(k)}

InitArch ==
    /\ \E k \in 0..ArchMaxMeshes :
         meshes \in ArchMeshLists(k)
    /\ z_profiles = extract(meshes)
    /\ variant_result = NoVariantResult
    /\ variant_diffs = NoVariantDiffs
    /\ components = <<>>
    /\ arg \in ArchIntents
    /\ ret = ""
    /\ pc = "call"

\* Stage 5 of Pipeline.run_init
DetectArchetype ==
    /\ pc = "call"
    /\ ret' = archetype_detect(meshes, z_profiles, arg)
    /\ pc' = "returned"
    /\ UNCHANGED <<meshes, z_profiles, variant_result, variant_diffs, components, arg>>

NextArch == DetectArchetype

SpecArch == InitArch /\ [][NextArch]_vars


\* ------------------------------------------------------------ claims C15, C20
ArchetypeLabels ==
    {"flat_plate", "rotational", "shell", "box_enclosure", "assembly", "organic"}

\* C15: an intent whose object category maps to a non-empty archetype gets
\* exactly that archetype, whatever the meshes and Z-profiles, and the label
\* returned is always one of the six archetypes.
C15_IntentWins ==
    pc = "returned" =>
        /\ MappedArchetype(arg) # "" => ret = MappedArchetype(arg)
        /\ ObjectCategory(arg) \in {"handle", "rotational"} => ret = "rotational"
        /\ ObjectCategory(arg) \in {"flat_plate", "bracket"} => ret = "flat_plate"
        /\ ret \in ArchetypeLabels

\* C15 witness: the category handle gave rotational for two meshes that the
\* heuristics call an assembly.
C15_Witness ==
    /\ pc = "returned"
    /\ ObjectCategory(arg) = "handle"
    /\ archetype_heuristics(meshes, z_profiles, arg) = "assembly"
    /\ ret = "rotational"

\* The rotational score of the specification: the maximum radius of each of
\* 16 equal sectors around the centroid, normalised, and 1 less the
\* coefficient of variation
SectorScore(mesh) ==
    LET centred == ArchCentred(mesh.vertices)
        sector_max_r ==
            [k \in 1..16 |->
                LET members == {i \in 1..Len(centred) : Sector16(centred[i]) = k - 1}
                IN  IF members = {} THEN 0
                    ELSE SetMax({ArchRadius(centred[i]) : i \in members})]
    IN  ScoreOfSectors(sector_max_r)

\* The archetype of the first check that matches, in the order of the
\* specification
FirstMatchingCheck(ms, zp) ==
    LET solid_meshes == SelectSeq(ms, is_solid_mesh)
    IN  IF solid_meshes = <<>> THEN "flat_plate"
        ELSE IF Len(solid_meshes) >= 2 /\ are_disjoint(solid_meshes) THEN "assembly"
        ELSE LET mesh == MaxVolumeMesh(solid_meshes).mesh
                 b == Bounds(mesh.vertices)
                 dx == b[2][1] - b[1][1]
                 dy == b[2][2] - b[1][2]
                 dz == b[2][3] - b[1][3]
                 min_dim == SetMin({dx, dy, dz})
             IN  IF Max2(dx, dy) >= 4 * dz /\ Len(zp.all_levels) <= 3 THEN "flat_plate"
                 ELSE IF SectorScore(mesh) >= 7500 THEN "rotational"
                 ELSE IF /\ mesh.area * min_dim > 0 /\ mesh.volume > 0
                         /\ 100 * mesh.volume < 12 * mesh.area * min_dim
                 THEN "shell"
                 ELSE IF is_box_like(mesh) THEN "box_enclosure"
                 ELSE IF is_organic(mesh) THEN "organic"
                 ELSE "flat_plate"

\* C20: with no mapped intent the archetype is that of the first matching
\* check: no solid mesh, disjoint solid meshes, then on the largest mesh the
\* flat-plate test, the rotational score, the shell ratio, box-likeness and
\* the organic test, with flat_plate as the fallback.
C20_FirstMatchingCheck ==
    (pc = "returned" /\ MappedArchetype(arg) = "")
        => ret = FirstMatchingCheck(meshes, z_profiles)


\* ------------------------------------------------------------ claim C16
\* The profile stored under a mesh name, <<>> when there is none
ProfileOf(name) ==
    LET i == DictIndex(z_profiles.profiles, name)
    IN  IF i = 0 THEN <<>> ELSE z_profiles.profiles[i]

\* C16: a mesh without vertex data gets a profile with the z_min and z_max
\* the loader computed and a significant-level list of exactly one level.
C16_FallbackHasOneLevel ==
    pc = "profiled" =>
        \A i \in 1..Len(meshes) :
            (/\ meshes[i].file_type # "dxf"
             /\ meshes[i].verts = <<>>
             /\ \A j \in (i + 1)..Len(meshes) : meshes[j].name # meshes[i].name)
            => /\ ProfileOf(meshes[i].name) # <<>>
               /\ ProfileOf(meshes[i].name).z_min = meshes[i].z_min
               /\ ProfileOf(meshes[i].name).z_max = meshes[i].z_max
               /\ Len(ProfileOf(meshes[i].name).significant_levels) = 1


\* ------------------------------------------------------------ claim C17
\* The number of profiles, and of classified components, of a mesh name
ProfileCount(name) ==
    Cardinality({i \in 1..Len(z_profiles.profiles) : z_profiles.profiles[i].name = name})

ComponentCount(name) ==
    Cardinality({i \in 1..Len(components) : components[i].name = name})

\* C17: of meshes with distinct names, a DXF or SVG stub has no ZProfile, is
\* not the body candidate and is no ClassifiedComponent; every other mesh has
\* exactly one ZProfile and exactly one ClassifiedComponent.
C17_Only3DMeshesProfiled ==
    (/\ pc = "classified"
     /\ \A i, j \in 1..Len(meshes) : i # j => meshes[i].name # meshes[j].name)
    => \A i \in 1..Len(meshes) :
          IF meshes[i].file_type \in {"dxf", "svg"}
          THEN /\ ProfileCount(meshes[i].name) = 0
               /\ z_profiles.body_candidate # meshes[i].name
               /\ ComponentCount(meshes[i].name) = 0
          ELSE /\ ProfileCount(meshes[i].name) = 1
               /\ ComponentCount(meshes[i].name) = 1


\* ------------------------------------------------------------ detect on an instance
FeatureTypes == {"circular_hole", "rectangular_slot", "polygon", "notch", "fillet", "chamfer"}

\* self._feature_counter = {} of FeatureDetector.__init__; a missing key reads 0
ZeroCounter == [t \in FeatureTypes |-> 0]

\* self._feature_counter after the features were built: _classify_path,
\* _detect_fillets_chamfers and _features_from_brep count each feature they
\* build, _features_from_variant_diffs does not
CountUp(feature_counter, candidates) ==
    [t \in FeatureTypes |->
        feature_counter[t]
        + Cardinality({i \in 1..Len(candidates) :
                          /\ candidates[i].feature_type = t
                          /\ Head(candidates[i].detected_from) # "variant_diff"})]

\* Names taken from self._feature_counter instead of the position in the list
detect_on_named_by_counter(feature_counter, ms, zp, vd, lib) ==
    LET candidates == detect_candidates(ms, zp, vd, lib)
        counted == CountUp(feature_counter, candidates)
        kept == deduplicate(candidates)
    IN  [features |-> [i \in 1..Len(kept) |->
                          [kept[i] EXCEPT !.name =
                              <<kept[i].feature_type, counted[kept[i].feature_type]>>]],
         feature_counter |-> counted]

\* FeatureDetector.detect on an instance whose _feature_counter is
\* feature_counter: the list returned and the counter left behind
detect_on(feature_counter, ms, zp, vd, lib) ==
    [features |-> detect(ms, zp, vd, lib),
     feature_counter |-> CountUp(feature_counter, detect_candidates(ms, zp, vd, lib))]

\* The state after stages 1 to 3 of Pipeline.run_init and the construction
\* of a FeatureDetector; ret collects the lists the calls of detect return
InitTwice ==
    /\ meshes \in FeatMeshLists
    /\ z_profiles = extract(meshes)
    /\ variant_result = variant_compute(meshes)
    /\ variant_diffs = variant_serialise(variant_compute(meshes))
    /\ components = classify(meshes, extract(meshes))
    /\ \E k \in 0..TwiceMaxPaths :
         \E paths \in [1..k -> FeatPaths] :
           \E split \in 0..k :
             \E edges \in FeatEdges :
               \E brep \in FeatBreps :
                 arg = [sections |-> <<SubSeq(paths, 1, split), SubSeq(paths, split + 1, k)>>,
                        edges |-> edges, brep |-> brep,
                        feature_counter |-> ZeroCounter]
    /\ ret = <<>>
    /\ pc = "classified"

\* detect() on the detector at hand
DetectOnSame ==
    /\ pc \in {"classified", "detected"}
    /\ LET out == detect_on(arg.feature_counter, meshes, z_profiles, variant_diffs, arg)
       IN  /\ ret' = Append(ret, out.features)
           /\ arg' = [arg EXCEPT !.feature_counter = out.feature_counter]
    /\ pc' = IF pc = "classified" THEN "detected" ELSE "detected_twice"
    /\ UNCHANGED <<meshes, z_profiles, variant_result, variant_diffs, components>>

\* FeatureDetector(meshes, z_profiles, variant_diffs, brep).detect() on a
\* detector built anew from the same input
DetectOnFresh ==
    /\ pc = "detected"
    /\ LET out == detect_on(ZeroCounter, meshes, z_profiles, variant_diffs, arg)
       IN  /\ ret' = Append(ret, out.features)
           /\ arg' = [arg EXCEPT !.feature_counter = out.feature_counter]
    /\ pc' = "detected_twice"
    /\ UNCHANGED <<meshes, z_profiles, variant_result, variant_diffs, components>>

NextTwice == DetectOnSame \/ DetectOnFresh

SpecTwice == InitTwice /\ [][NextTwice]_vars

extract_stage(ms) ==
    [meshes |-> ms, z_profiles |-> extract(ms)]

\* VariantDiffer(meshes).compute(); _compute_volume_diffs writes volume_diff,
\* volume_diff_pct and bbox_diff to the pairs _detect_pairs has just built
variant_stage(ms) ==
    LET result == variant_compute(ms)
    IN  [meshes |-> ms, variant_result |-> result,
         variant_diffs |-> variant_serialise(result)]

\* TopologyClassifier(meshes, z_profiles, variant_diffs).classify(); the
\* sort and the csg_order assignment act on the list classify has built
topology_stage(ms, zp, vd) ==
    [meshes |-> ms, z_profiles |-> zp, variant_diffs |-> vd,
     components |-> classify(ms, zp)]

\* FeatureDetector(meshes, z_profiles, variant_diffs, brep).detect(); the
\* names are written to the features detect has built
feature_stage(ms, zp, vd, lib) ==
    [meshes |-> ms, z_profiles |-> zp, variant_diffs |-> vd,
     features |-> detect(ms, zp, vd, lib)]

\* BoundaryDetector(meshes, components).detect()
boundary_stage(ms, comps) ==
    [meshes |-> ms, components |-> comps, boundaries |-> boundary_detect(ms, comps)]

\* A PatternDetector that names the features it was handed after their group
pattern_stage_renaming(features) ==
    [features |-> [i \in 1..Len(features) |->
                      [features[i] EXCEPT !.name = feature_size_key(features[i])]],
     patterns |-> pattern_detect(features)]

\* PatternDetector().detect(features); the groups hold the features handed in
pattern_stage(features) ==
    [features |-> features, patterns |-> pattern_detect(features)]

NoResults == [features |-> <<>>, boundaries |-> <<>>, patterns |-> <<>>]

\* The body with its variants, and a body with a lid on top of it
PipeMeshLists ==
    {<< SlabMesh(N_Body, "unknown", 0, 80000, 124),
        SlabMesh(Join(<<W_Body, W_No, W_Holes>>), "variant_no_holes", 0, 80000, 70) >>,
     << SlabMesh(N_Body, "unknown", 0, 80000, 124),
        SlabMesh(Join(<<W_Body, W_Removed>>), "variant_removed", 80000, 100000, 70) >>}

\* Three squares 5 mm apart in a row, a slot and an L
PipePaths ==
    {RectPath(<<0, 0>>, 3, 3, 0, TRUE), RectPath(<<5, 0>>, 3, 3, 0, TRUE),
     RectPath(<<10, 0>>, 3, 3, 0, TRUE), RectPath(<<0, 0>>, 20, 2, 0, TRUE), LPath}

PipeEdges == {e \in FeatEdges : e.chamfer_edges = 0}

PipeBreps == {<<>>, <<F_Cyl, F_Torus>>}

\* The state after stage 0 of Pipeline.run_init, with what trimesh will
\* answer in stage 4
InitPipe ==
    /\ meshes \in PipeMeshLists
    /\ z_profiles = NoProfiles
    /\ variant_result = NoVariantResult
    /\ variant_diffs = NoVariantDiffs
    /\ components = <<>>
    /\ \E k \in 0..PipeMaxPaths :
         \E paths \in [1..k -> PipePaths] :
           \E split \in 0..k :
             \E edges \in PipeEdges :
               \E brep \in PipeBreps :
                 arg = [sections |-> <<SubSeq(paths, 1, split), SubSeq(paths, split + 1, k)>>,
                        edges |-> edges, brep |-> brep]
    /\ ret = NoResults
    /\ pc = "loaded"

\* Stage 1
PipeExtract ==
    /\ pc = "loaded"
    /\ \E out \in {extract_stage(meshes)} :
           /\ meshes' = out.meshes
           /\ z_profiles' = out.z_profiles
    /\ pc' = "profiled"
    /\ UNCHANGED <<variant_result, variant_diffs, components, arg, ret>>

\* Stage 2
PipeVariant ==
    /\ pc = "profiled"
    /\ \E out \in {variant_stage(meshes)} :
           /\ meshes' = out.meshes
           /\ variant_result' = out.variant_result
           /\ variant_diffs' = out.variant_diffs
    /\ pc' = "diffed"
    /\ UNCHANGED <<z_profiles, components, arg, ret>>

\* Stage 3
PipeTopology ==
    /\ pc = "diffed"
    /\ \E out \in {topology_stage(meshes, z_profiles, variant_diffs)} :
           /\ meshes' = out.meshes
           /\ z_profiles' = out.z_profiles
           /\ variant_diffs' = out.variant_diffs
           /\ components' = out.components
    /\ pc' = "classified"
    /\ UNCHANGED <<variant_result, arg, ret>>

\* Stage 4
PipeFeatures ==
    /\ pc = "classified"
    /\ \E out \in {feature_stage(meshes, z_profiles, variant_diffs, arg)} :
           /\ meshes' = out.meshes
           /\ z_profiles' = out.z_profiles
           /\ variant_diffs' = out.variant_diffs
           /\ ret' = [ret EXCEPT !.features = out.features]
    /\ pc' = "detected"
    /\ UNCHANGED <<variant_result, components, arg>>

\* Stage 6
PipeBoundaries ==
    /\ pc = "detected"
    /\ \E out \in {boundary_stage(meshes, components)} :
           /\ meshes' = out.meshes
           /\ components' = out.components
           /\ ret' = [ret EXCEPT !.boundaries = out.boundaries]
    /\ pc' = "bounded"
    /\ UNCHANGED <<z_profiles, variant_result, variant_diffs, arg>>

\* PatternDetector on the features of stage 4
PipePatterns ==
    /\ pc = "bounded"
    /\ \E out \in {pattern_stage(ret.features)} :
           ret' = [ret EXCEPT !.features = out.features, !.patterns = out.patterns]
    /\ pc' = "patterned"
    /\ UNCHANGED <<meshes, z_profiles, variant_result, variant_diffs, components, arg>>

NextPipe ==
    \/ PipeExtract
    \/ PipeVariant
    \/ PipeTopology
    \/ PipeFeatures
    \/ PipeBoundaries
    \/ PipePatterns

SpecPipe == InitPipe /\ [][NextPipe]_vars

TranslateBy(vertices, d) ==
    [i \in 1..Len(vertices) |->
        <<vertices[i][1] + d[1], vertices[i][2] + d[2], vertices[i][3] + d[3]>>]

\* _load_mesh of a shape placed at d
AsmMesh(name, shape, d) ==
    LET vertices == TranslateBy(shape.vertices, d)
        b == Bounds(vertices)
    IN  [name |-> name, file_type |-> "stl", auto_role |-> "unknown",
         z_min |-> 1000 * b[1][3], z_max |-> 1000 * b[2][3],
         verts |-> ZHistogram(vertices), volume |-> shape.volume,
         bounding_box |-> b,
         mesh |-> [shape EXCEPT !.vertices = vertices]]

\* A box of 4 x 4 x 3 mm and a triangle, which is no solid
AsmShapes == {BoxShape(40, 40, 30, 48000, 8000), Triangle}

\* In place, touching along x, apart along x, apart along z, and apart
\* along every axis
AsmOffsets == {<<0, 0, 0>>, <<40, 0, 0>>, <<41, 0, 0>>, <<0, 0, 50>>, <<50, 50, 50>>}

AsmNames == <<"a", "b", "c", "d">>

AsmMeshes(i) ==
    {AsmMesh(AsmNames[i], shape, d) : shape \in AsmShapes, d \in AsmOffsets}
    \cup {StubMesh(AsmNames[i], "dxf", "unknown")}

RECURSIVE AsmMeshLists(_)
AsmMeshLists(k) ==
    IF k = 0 THEN {<<>>}
    ELSE {Append(ms, m) : ms \in AsmMeshLists(k - 1), m \in AsmMeshes(k)}

AsmIntents == {[object_category |-> "custom"], [object_category |-> "bracket"],
               [description |-> "part"]}

InitAsm ==
    /\ \E k \in 0..AsmMaxMeshes : meshes \in AsmMeshLists(k)
    /\ z_profiles = extract(meshes)
    /\ variant_result = NoVariantResult
    /\ variant_diffs = NoVariantDiffs
    /\ components = <<>>
    /\ arg \in AsmIntents
    /\ ret = ""
    /\ pc = "call"

NextAsm == DetectArchetype

SpecAsm == InitAsm /\ [][NextAsm]_vars

\* The solid meshes of the state, by position
SolidPositions ==
    {i \in 1..Len(meshes) :
        meshes[i].file_type \notin {"dxf", "svg"} /\ Len(meshes[i].mesh.vertices) >= 4}

\* The intervals of the bounding boxes of meshes i and j on an axis have no
\* point in common
IntervalsApart(i, j, axis) ==
    LET a == meshes[i].bounding_box
        b == meshes[j].bounding_box
    IN  a[2][axis] < b[1][axis] \/ b[2][axis] < a[1][axis]

\* C21 as stated: with no mapped intent, assembly is returned iff there are at
\* least 2 solid meshes and every pair of their bounding boxes is disjoint on
\* every axis.
C21_ApartOnEveryAxis ==
    (pc = "returned" /\ MappedArchetype(arg) = "") =>
        (ret = "assembly" <=>
            /\ Cardinality(SolidPositions) >= 2
            /\ \A i, j \in SolidPositions :
                  i < j => \A axis \in 1..3 : IntervalsApart(i, j, axis))

\* C21 amended: with no mapped intent, assembly is returned iff there are at
\* least 2 solid meshes and every pair of their bounding boxes is apart on at
\* least one axis, that is, no two of the boxes have a point in common.
C21_ApartOnSomeAxis ==
    (pc = "returned" /\ MappedArchetype(arg) = "") =>
        (ret = "assembly" <=>
            /\ Cardinality(SolidPositions) >= 2
            /\ \A i, j \in SolidPositions :
                  i < j => \E axis \in 1..3 : IntervalsApart(i, j, axis))

\* C21 witness: three solid meshes, each pair apart, one pair along x only,
\* were called an assembly.
C21_Witness ==
    /\ pc = "returned"
    /\ MappedArchetype(arg) = ""
    /\ Cardinality(SolidPositions) = 3
    /\ \E i, j \in SolidPositions :
          /\ i < j
          /\ IntervalsApart(i, j, 1)
          /\ ~IntervalsApart(i, j, 2)
          /\ ~IntervalsApart(i, j, 3)
    /\ ret = "assembly"


\* ------------------------------------------------------------ edge dihedral angles
\* angle_deg = math.degrees(math.acos(abs(cos_a))) of two unit normals that
\* enclose the angle t: the absolute value folds t onto 0..90 degrees.
\* Angles are in tenths of a degree.
dihedral_angle_deg(t) == IF t <= 900 THEN t ELSE 1800 - t

\* fillet_edges of _detect_fillets_chamfers: the indices with angle_deg < 10.0
\* (after the chamfer test has failed)
fillet_edge_indices(adjacency) ==
    {i \in 1..Len(adjacency) :
        /\ ~(100 <= dihedral_angle_deg(adjacency[i]) /\ dihedral_angle_deg(adjacency[i]) <= 800)
        /\ dihedral_angle_deg(adjacency[i]) < 100}

\* chamfer_edges of _detect_fillets_chamfers: 10.0 <= angle_deg <= 80.0
chamfer_edge_indices(adjacency) ==
    {i \in 1..Len(adjacency) :
        100 <= dihedral_angle_deg(adjacency[i]) /\ dihedral_angle_deg(adjacency[i]) <= 800}

\* _detect_fillets_chamfers on a mesh whose face_adjacency pairs enclose the
\* angles of adjacency; estimate holds what _estimate_fillet_radius and
\* _estimate_chamfer_size return. The features and self._feature_counter.
detect_fillets_chamfers_on(feature_counter, mesh, adjacency, estimate) ==
    LET features ==
            detect_fillets_chamfers(mesh,
                [fillet_edges |-> Cardinality(fillet_edge_indices(adjacency)),
                 chamfer_edges |-> Cardinality(chamfer_edge_indices(adjacency)),
                 radius |-> estimate.radius, size |-> estimate.size])
    IN  [features |-> features, feature_counter |-> CountUp(feature_counter, features)]

\* Angles between the normals of two adjacent faces: coplanar, just below and
\* at 10 degrees, 45, at and just above 80, perpendicular, and the obtuse
\* angles of a thin wedge up to faces back to back
EdgeAngles == {0, 99, 100, 450, 800, 801, 900, 999, 1000, 1500, 1701, 1800}

EdgeEstimates == {[radius |-> 10000, size |-> 10000], [radius |-> 12345, size |-> 5004]}

\* A loaded body mesh with its face adjacency, before the edge analysis
InitEdge ==
    /\ meshes = <<SlabMesh(N_Body, "unknown", 0, 80000, 124)>>
    /\ z_profiles = NoProfiles
    /\ variant_result = NoVariantResult
    /\ variant_diffs = NoVariantDiffs
    /\ components = <<>>
    /\ \E k \in 0..EdgeMaxEdges :
         \E adjacency \in [1..k -> EdgeAngles] :
           \E estimate \in EdgeEstimates :
             arg = [adjacency |-> adjacency, estimate |-> estimate]
    /\ ret = [features |-> <<>>, feature_counter |-> ZeroCounter]
    /\ pc = "call"

\* self._detect_fillets_chamfers(body_mesh)
DetectFilletsChamfers ==
    /\ pc = "call"
    /\ ret' = detect_fillets_chamfers_on(ret.feature_counter, meshes[1],
                                         arg.adjacency, arg.estimate)
    /\ pc' = "returned"
    /\ UNCHANGED <<meshes, z_profiles, variant_result, variant_diffs, components, arg>>

NextEdge == DetectFilletsChamfers

SpecEdge == InitEdge /\ [][NextEdge]_vars

\* The features of a kind in the list returned
FeaturesOfType(t) == {i \in 1..Len(ret.features) : ret.features[i].feature_type = t}

\* C22: an edge whose normals enclose t is a fillet candidate for t < 10, a
\* chamfer candidate for 10 <= t <= 80 and ignored for t > 80; the mesh
\* yields at most one fillet and one chamfer, a fillet exactly when some
\* edge is a fillet candidate, a chamfer exactly when some edge is a chamfer
\* candidate.
C22_BucketsByAngle ==
    pc = "returned" =>
        /\ Cardinality(FeaturesOfType("fillet")) <= 1
        /\ Cardinality(FeaturesOfType("chamfer")) <= 1
        /\ FeaturesOfType("fillet") # {} <=>
              \E i \in 1..Len(arg.adjacency) : arg.adjacency[i] < 100
        /\ FeaturesOfType("chamfer") # {} <=>
              \E i \in 1..Len(arg.adjacency) :
                 100 <= arg.adjacency[i] /\ arg.adjacency[i] <= 800

\* C23: an edge below 10 degrees is skipped: a mesh whose adjacent faces are
\* all coplanar or perpendicular yields no fillet and no chamfer, and no
\* feature counts an edge below 10 degrees.
C23_TangentSkipped ==
    pc = "returned" =>
        /\ (\A i \in 1..Len(arg.adjacency) : arg.adjacency[i] \in {0, 900})
              => ret.features = <<>>
        /\ \A f \in 1..Len(ret.features) :
              ret.features[f].params.edge_count
                 <= Cardinality({i \in 1..Len(arg.adjacency) : arg.adjacency[i] >= 100})


\* ------------------------------------------------------------ claim C24
\* Vertices in pairs -2k and 2k + e along one axis, mirrored pairs along a
\* second axis and flat along the third
MirrorShifts == {0, 1, 9}

MirrorVertex(axis, c, k) ==
    [a \in 1..3 |-> IF a = axis THEN c
                    ELSE IF a = (axis % 3) + 1 THEN (IF c < 0 THEN -1 ELSE 1)
                    ELSE 0]

MirrorVertices(axis, shifts) ==
    [i \in 1..(2 * Len(shifts)) |->
        LET k == (i + 1) \div 2
        IN  IF i % 2 = 1 THEN MirrorVertex(axis, -2 * k, k)
            ELSE MirrorVertex(axis, 2 * k + shifts[k], k)]

InitMirror ==
    /\ meshes = <<>>
    /\ z_profiles = NoProfiles
    /\ variant_result = NoVariantResult
    /\ variant_diffs = NoVariantDiffs
    /\ components = <<>>
    /\ \E k \in 1..MirrorMaxPairs :
         \E shifts \in [1..k -> MirrorShifts] :
           \E axis \in 1..3 :
             arg = <<[name |-> "a", kind |-> "Trimesh",
                      vertices |-> MirrorVertices(axis, shifts)]>>
    /\ ret = <<>>
    /\ pc = "call"

NextMirror == DetectSymmetry

SpecMirror == InitMirror /\ [][NextMirror]_vars

\* The number of centred coordinates along an axis that, in sorted order, lie
\* within 5% of the extent of the sorted negated coordinates
CloseCount(verts, axis) ==
    LET n == Len(verts)
        sorted == SortInts([i \in 1..n |-> Centred(verts)[i][axis]])
        negated == SortInts([i \in 1..n |-> -Centred(verts)[i][axis]])
    IN  Cardinality({i \in 1..n :
                        20 * Abs(sorted[i] - negated[i]) < n * Extents(verts)[axis]})

MirrorFlag(result, axis) ==
    IF axis = 1 THEN result.mirror_yz
    ELSE IF axis = 2 THEN result.mirror_xz
    ELSE result.mirror_xy

\* C24: for a mesh of at least 8 vertices the mirror flag of an axis is true
\* iff at least 80% of the sorted centred coordinates lie within 5% of the
\* extent of the sorted negated ones; exactly 80% is symmetric.
C24_AtLeast80Percent ==
    pc = "returned" =>
        \A i \in 1..Len(arg) :
            Len(arg[i].vertices) >= 8 =>
                \A axis \in 1..3 :
                    MirrorFlag(ret[DictIndex(ret, arg[i].name)].result, axis)
                        <=> 5 * CloseCount(arg[i].vertices, axis)
                               >= 4 * Len(arg[i].vertices)


\* ------------------------------------------------------------ claim C25
\* The centres of the pool on the circle of radius 4 mm about (5, 5), in
\* thousandths of a millimetre, with their angles in degrees
CircleAngles ==
    [p \in {<<9000, 5000>>, <<5000, 9000>>, <<1000, 5000>>, <<5000, 1000>>} |->
        IF p = <<9000, 5000>> THEN 0
        ELSE IF p = <<5000, 9000>> THEN 90
        ELSE IF p = <<1000, 5000>> THEN 180
        ELSE 270]

\* The angles A are those of an arc with the constant spacing step: from one
\* of them every other is reached in steps of step, without a gap
ArcOfStep(A, step) ==
    \E first \in A :
        A = {(first + k * step) % 360 : k \in 0..(Cardinality(A) - 1)}

\* C25: a group of n >= 3 holes of one rounded size whose centres are n
\* distinct points of one circle, consecutive ones 90 degrees apart (an arc or
\* the full circle), yields one circular pattern with the centre and radius
\* of the circle and the angular spacing 90.
C25_CircularArc ==
    pc = "returned" =>
        \A i \in 1..Len(arg) :
            LET group == GroupOf(i)
                n == Len(group)
                pts == HoleCentres(group)
                S == Range(pts)
                names == [k \in 1..n |-> group[k].name]
                mine == {k \in 1..Len(ret) : ret[k].member_names = names}
            IN  (/\ arg[i].feature_type = "circular_hole"
                 /\ n >= 3
                 /\ Cardinality(S) = n
                 /\ S \subseteq DOMAIN CircleAngles
                 /\ ArcOfStep({CircleAngles[p] : p \in S}, 90))
                => /\ Cardinality(mine) = 1
                   /\ \A k \in mine :
                        /\ ret[k].pattern_type = "circular"
                        /\ ret[k].count = n
                        /\ ret[k].radius = 40000
                        /\ ret[k].arc_center = <<50000, 50000>>
                        /\ ret[k].angular_spacing_deg = 9000


\* ------------------------------------------------------------ claim C26
W_Rib == <<"R","i","b">>

\* Two bodies whose names differ in case only, a part with a name of its own,
\* and variants of the body, of the full body and of no mesh at all
PairNames ==
    {Join(<<W_Body>>), LowerStr(Join(<<W_Body>>)), Join(<<W_Full, W_Body>>),
     Join(<<W_Rib>>), Join(<<W_Body, W_Removed>>),
     Join(<<W_Full, W_Body, W_No, W_Holes>>), Join(<<W_Only>>)}

PairMeshes ==
    {SlabMesh(nm, DetectRole(nm), 0, 80000, 124) : nm \in PairNames}
    \cup {StubMesh(Join(<<W_Body>>), "dxf", DetectRole(Join(<<W_Body>>)))}

InitPair ==
    /\ \E k \in 0..PairMaxMeshes : meshes \in [1..k -> PairMeshes]
    /\ z_profiles = NoProfiles
    /\ variant_result = NoVariantResult
    /\ variant_diffs = NoVariantDiffs
    /\ components = <<>>
    /\ arg = <<>>
    /\ ret = <<>>
    /\ pc = "loaded"

NextPair == ComputeVariantDiffs

SpecPair == InitPair /\ [][NextPair]_vars

\* The number of lower-cased word tokens two names share
CommonTokens(a, b) == Cardinality(Tokens(LowerStr(a)) \cap Tokens(LowerStr(b)))

\* The position at which a name first occurs among the meshes the differ holds
FirstPosition(name) ==
    SetMin({i \in 1..Len(meshes) : meshes[i].file_type # "dxf" /\ meshes[i].name = name})

\* The non-variant names of the mesh set
BaseNames == {nm \in MeshNames : ~HasAnyKeyword(nm)}

\* Among the names C, the one with the most tokens in common with v, and
\* among equals the first in input order
BestOverlap(v, C) ==
    CHOOSE c \in C :
        \A other \in C :
            \/ CommonTokens(v, c) > CommonTokens(v, other)
            \/ /\ CommonTokens(v, c) = CommonTokens(v, other)
               /\ FirstPosition(c) <= FirstPosition(other)

\* The emitted pairs whose variant is v
PairsOf(v) == {i \in 1..Len(variant_diffs.pairs) : variant_diffs.pairs[i].variant = v}

\* C26 as stated: whenever a non-variant name exists, every variant name gets
\* exactly one pair, whose base is the non-variant name with the most common
\* tokens, the first in input order among equals.
C26_PairForEveryVariant ==
    pc = "diffed" =>
        \A v \in MeshNames :
            (HasAnyKeyword(v) /\ BaseNames # {}) =>
                /\ Cardinality(PairsOf(v)) = 1
                /\ \A i \in PairsOf(v) :
                      variant_diffs.pairs[i].base = BestOverlap(v, BaseNames)

\* C26 amended: a variant name gets exactly one pair whenever a non-variant
\* name shares at least one token with it, with the base as stated, and no
\* pair when no non-variant name shares a token with it.
C26_PairForOverlappingVariant ==
    pc = "diffed" =>
        \A v \in MeshNames :
            HasAnyKeyword(v) =>
                IF \E c \in BaseNames : CommonTokens(v, c) >= 1
                THEN /\ Cardinality(PairsOf(v)) = 1
                     /\ \A i \in PairsOf(v) :
                           variant_diffs.pairs[i].base = BestOverlap(v, BaseNames)
                ELSE PairsOf(v) = {}

\* C26 witness: a variant with two bases that share one token with it, one of
\* them in another case, both listed before it, was paired with the one
\* listed first.
C26_Witness ==
    /\ pc = "diffed"
    /\ Len(meshes) = 3
    /\ meshes[1].name = LowerStr(Join(<<W_Body>>))
    /\ meshes[2].name = Join(<<W_Full, W_Body>>)
    /\ meshes[3].name = Join(<<W_Body, W_Removed>>)
    /\ \A i \in 1..3 : meshes[i].file_type # "dxf"
    /\ Len(variant_diffs.pairs) = 1
    /\ variant_diffs.pairs[1].base = LowerStr(Join(<<W_Body>>))


\* ------------------------------------------------------------ claim C27
\* C27 as stated: the flat-slab flag of every profile is true iff its
\* significant-level list has at most 2 entries.
C27_FlatIffAtMostTwoLevels ==
    pc = "profiled" =>
        \A i \in 1..Len(z_profiles.profiles) :
            z_profiles.profiles[i].is_flat_slab
                <=> Len(z_profiles.profiles[i].significant_levels) <= 2

\* C27 amended: the flat-slab flag of the profile of a mesh is true iff the
\* profile comes from the vertices of the mesh, its significant-level list
\* has at most 2 entries and its Z-thickness is positive; the profile of a
\* mesh without vertex data is never a flat slab.
C27_FlatIffThickAndAtMostTwoLevels ==
    pc = "profiled" =>
        \A i \in 1..Len(meshes) :
            (/\ meshes[i].file_type # "dxf"
             /\ \A j \in (i + 1)..Len(meshes) :
                   meshes[j].file_type = "dxf" \/ meshes[j].name # meshes[i].name)
            => LET profile == ProfileOf(meshes[i].name)
               IN  /\ profile # <<>>
                   /\ profile.is_flat_slab
                        <=> /\ meshes[i].verts # <<>>
                            /\ Len(profile.significant_levels) <= 2
                            /\ profile.z_max - profile.z_min > 0

\* C27 witness: of two profiled meshes with vertices one has a single level
\* and no thickness and is no flat slab, the other has two levels and is one.
C27_Witness ==
    /\ pc = "profiled"
    /\ Len(z_profiles.profiles) = 2
    /\ \A i \in 1..Len(meshes) : meshes[i].verts # <<>> /\ meshes[i].file_type = "stl"
    /\ \E i, j \in 1..2 :
          /\ Len(z_profiles.profiles[i].significant_levels) = 1
          /\ z_profiles.profiles[i].z_thickness = 0
          /\ ~z_profiles.profiles[i].is_flat_slab
          /\ Len(z_profiles.profiles[j].significant_levels) = 2
          /\ z_profiles.profiles[j].is_flat_slab


\* ------------------------------------------------------------ claim C28
\* The parameters a feature of each kind is said to carry
KindParams(feature_type) ==
    CASE feature_type = "circular_hole" -> {"center_x", "center_y", "diameter"}
      [] feature_type = "rectangular_slot" ->
            {"x_min", "x_max", "y_min", "y_max", "width", "height"}
      [] feature_type = "polygon" -> {"vertices"}
      [] feature_type = "fillet" -> {"radius"}
      [] OTHER -> {}

\* C28: every feature detect returns carries the parameters of its kind,
\* whatever its provenance: centre and diameter for a circular hole, the
\* extents, width and height for a rectangular slot, a vertex list of at
\* least 3 points for a polygon, a radius for a fillet.
C28_KindParams ==
    pc = "detected" =>
        \A i \in 1..Len(ret) :
            /\ KindParams(ret[i].feature_type) \subseteq DOMAIN ret[i].params
            /\ (ret[i].feature_type = "polygon" /\ "vertices" \in DOMAIN ret[i].params)
                  => Len(ret[i].params.vertices) >= 3


\* ------------------------------------------------------------ claim C29
\* C29: when the mesh set holds a mesh that is no 2-D stub and the classifier
\* is given the Z-profiles of that mesh set, the component list is not empty,
\* its first element has csg_order 0 and the role base_solid, and the body
\* candidate is one of the base_solid components.
C29_BaseSolidFirst ==
    (pc = "classified" /\ Non2D # <<>>) =>
        /\ components # <<>>
        /\ components[1].csg_order = 0
        /\ components[1].role = "base_solid"
        /\ \E i \in 1..Len(components) :
              /\ components[i].name = z_profiles.body_candidate
              /\ components[i].role = "base_solid"

\* C29 witness: three components were classified, the body candidate, which
\* was not the first mesh loaded, is first with the role base_solid, and a
\* component of another role follows.
C29_Witness ==
    /\ pc = "classified"
    /\ Len(Non2D) >= 2
    /\ Len(components) >= 2
    /\ components[1].name = z_profiles.body_candidate
    /\ components[1].name # meshes[1].name
    /\ components[1].role = "base_solid"
    /\ components[2].role # "base_solid"


\* ------------------------------------------------------------ claim C30
\* C30: every feature detect returns has a name made of its kind and an
\* index, a positive number, and no two features of the list share a name.
C30_NamesKindIndexUnique ==
    pc = "detected" =>
        /\ \A i \in 1..Len(ret) :
              /\ ret[i].name # <<>>
              /\ Len(ret[i].name) = 2
              /\ ret[i].name[1] = ret[i].feature_type
              /\ ret[i].name[1] \in FeatureTypes
              /\ ret[i].name[2] \in 1..Len(ret)
        /\ \A i, j \in 1..Len(ret) : i # j => ret[i].name # ret[j].name

\* C30 witness: a list of four or more features of every provenance, among
\* them two of one kind, was returned.
C30_Witness ==
    /\ pc = "detected"
    /\ Len(ret) >= 4
    /\ \E i, j \in 1..Len(ret) : i # j /\ ret[i].feature_type = ret[j].feature_type
    /\ {"cross_section_z", "variant_diff", "edge_dihedral", "brep_face"}
          \subseteq {Head(ret[i].detected_from) : i \in 1..Len(ret)}

=============================================================================
